---- MODULE Spec2Model ----
(***************************************************************************)
(* Laboratory QA/QC engine (qc_engine): the Blank and Duplicate            *)
(* evaluators, the per-module reducers, the final flag and the summary     *)
(* merge, as state machines over bounded inputs.                           *)
(*                                                                         *)
(* Numbers.  Measured values and detection limits are drawn from small     *)
(* ranges of integers.  A numeric proxy is the exact real                  *)
(* (r + s*sqrt(2)) / 2, written [r |-> r, s |-> s], so that dl/2 and       *)
(* dl/sqrt(2) = dl*sqrt(2)/2 are both exact; IEEE rounding is not          *)
(* modelled.  Comparisons with NaN are FALSE as in numpy.                  *)
(*                                                                         *)
(* Cells.  A raw cell is one of                                            *)
(*   [kind |-> "nan"]            missing (NaN / None)                      *)
(*   [kind |-> "lt",  v |-> x]   the string "< x"  (censored, BDL)         *)
(*   [kind |-> "gt",  v |-> x]   the string "> x"  (above range)           *)
(*   [kind |-> "num", v |-> x]   a number or a string float() parses to x  *)
(*   [kind |-> "text"]           any other string (float() raises)         *)
(*                                                                         *)
(* Names that the code edits (column names) are sequences of characters.   *)
(***************************************************************************)
EXTENDS Integers, Sequences, FiniteSets, TLC

VARIABLES
    pc,             \* position of the run: "start", then "done"
    row,            \* final_flag: the summary row it is applied to
    flag,           \* final_flag: its return value
    statuses,       \* reducers: the per-run status list of one analyte
    crm_final,      \* compute_crm_final_status(statuses)
    dup_final,      \* compute_dup_final_status(statuses)
    crm_results,    \* CRM result table (argument of build_qc_summary)
    dup_results,    \* Duplicate result table
    blank_results,  \* Blank result table
    summary,        \* build_qc_summary's return value, or the exception raised
    df,             \* the QC table handed to an evaluator
    metadata,       \* analyte metadata: a sequence of [analyte, unit, dl]
    tolerance_factor,
    bdl_rule,
    rpd_tolerance,
    low_tol,        \* CRM recovery band
    high_tol,
    call_args,      \* the arguments of a helper function applied on its own
    call_ret        \* its return value, or the exception raised

vars == <<pc, row, flag, statuses, crm_final, dup_final, crm_results,
          dup_results, blank_results, summary, df, metadata,
          tolerance_factor, bdl_rule, rpd_tolerance, low_tol, high_tol,
          call_args, call_ret>>

\* values of numeric and object columns that are not numbers
NaN == [nan |-> TRUE]
None == [none |-> TRUE]
Inf == [inf |-> TRUE]
EmptyStr == [str |-> ""]

\* a missing entry of a status column (statuses are strings)
NaNStatus == "<NaN>"
NoneStatus == "<None>"

----------------------------------------------------------------------------
(* qc_summary.py: normalize_status and final_flag *)

normalize_status(x) ==
    IF x = NaNStatus \/ x = NoneStatus THEN "NotEvaluated" ELSE x

\* dict.get / Series.get: None when the row has no such column
RowGet(r, key) ==
    IF key \in DOMAIN r THEN r[key] ELSE NoneStatus

final_flag_dupNI(r) ==
    LET crm == normalize_status(RowGet(r, "CRM_FinalStatus"))
        dup == normalize_status(RowGet(r, "Duplicate_Status"))
        blank == normalize_status(RowGet(r, "Blank_Status"))
    IN  IF crm = "Fail" \/ dup = "Fail" \/ blank = "Fail" THEN "Fail"
        ELSE IF crm = "Needs Investigation" THEN "Needs Investigation"
        ELSE IF blank \in {"Needs Investigation", "NotEvaluated"}
             THEN "Needs Investigation"
        ELSE "Pass"

final_flag(r) ==
    LET crm == normalize_status(RowGet(r, "CRM_FinalStatus"))
        dup == normalize_status(RowGet(r, "Duplicate_Status"))
        blank == normalize_status(RowGet(r, "Blank_Status"))
    IN  IF crm = "Fail" \/ dup = "Fail" \/ blank = "Fail" THEN "Fail"
        ELSE IF crm = "Needs Investigation" THEN "Needs Investigation"
        ELSE IF dup \in {"BDL_Substitution", "NotEvaluated"}
             THEN "Needs Investigation"
        ELSE IF blank \in {"Needs Investigation", "NotEvaluated"}
             THEN "Needs Investigation"
        ELSE "Pass"

----------------------------------------------------------------------------
(* qc_summary.py: the per-module reducers (nested in build_qc_summary) *)

Count(seq, x) == Cardinality({i \in DOMAIN seq : seq[i] = x})

InSeq(seq, x) == \E i \in DOMAIN seq : seq[i] = x

compute_crm_final_status_anyFail(sts) ==
    LET fail_count == Count(sts, "Fail")
        ni_count == Count(sts, "Needs Investigation")
        ok_count == Count(sts, "OK")
    IN  IF fail_count >= 1 THEN "Fail"
        ELSE IF ni_count > 0 THEN "Needs Investigation"
        ELSE IF ok_count > 0 THEN "OK"
        ELSE IF \A i \in DOMAIN sts : sts[i] \in {"NotApplicable", "Below10xDL"}
             THEN "NotApplicable"
        ELSE "NotEvaluated"

compute_crm_final_status(sts) ==
    LET fail_count == Count(sts, "Fail")
        ni_count == Count(sts, "Needs Investigation")
        ok_count == Count(sts, "OK")
    IN  IF fail_count >= 2 THEN "Fail"
        ELSE IF fail_count = 1 THEN "Needs Investigation"
        ELSE IF ni_count > 0 THEN "Needs Investigation"
        ELSE IF ok_count > 0 THEN "OK"
        ELSE IF \A i \in DOMAIN sts : sts[i] \in {"NotApplicable", "Below10xDL"}
             THEN "NotApplicable"
        ELSE "NotEvaluated"

compute_dup_final_status_okFirst(sts) ==
    IF InSeq(sts, "Fail_RPD") THEN "Fail"
    ELSE IF InSeq(sts, "OK") THEN "OK"
    ELSE IF InSeq(sts, "BDL_Substitution") THEN "Needs Investigation"
    ELSE IF InSeq(sts, "NotEvaluated") THEN "Needs Investigation"
    ELSE IF \A i \in DOMAIN sts : sts[i] \in {"BothBDL", "Below10xDL"}
         THEN "NotApplicable"
    ELSE "NotEvaluated"

compute_dup_final_status(sts) ==
    IF InSeq(sts, "Fail_RPD") THEN "Fail"
    ELSE IF InSeq(sts, "BDL_Substitution") THEN "Needs Investigation"
    ELSE IF InSeq(sts, "NotEvaluated") THEN "Needs Investigation"
    ELSE IF InSeq(sts, "OK") THEN "OK"
    ELSE IF \A i \in DOMAIN sts : sts[i] \in {"BothBDL", "Below10xDL"}
         THEN "NotApplicable"
    ELSE "NotEvaluated"

----------------------------------------------------------------------------
(* Tables, cells and numbers shared by the evaluators *)

\* pd.DataFrame(): no columns, no rows
EmptyFrame == [columns |-> {}, rows |-> <<>>]

\* DataFrame.empty / len(frame) == 0, for a frame or None
IsEmptyFrame(t) ==
    IF t = None THEN TRUE ELSE Len(t.rows) = 0 \/ t.columns = {}

Raised(exc) == [raised |-> exc]

HasRaised(t) == "raised" \in DOMAIN t

\* pd.isna(x) on a raw cell
IsNa(x) == x.kind = "nan"

\* str.replace(ch, "") on a name
RemoveCh(str, ch) == SelectSeq(str, LAMBDA c : c # ch)

\* f"{analyte}_{unit}".replace(" ", "").replace("/", "")
ColName(meta) ==
    RemoveCh(RemoveCh(meta.analyte \o <<"_">> \o meta.unit, " "), "/")

\* the real v as a proxy (r + s*sqrt(2)) / 2
Num(v) == [r |-> 2 * v, s |-> 0]

\* S*sqrt(2) < T, exactly, for integers S and T
LtSqrt2(S, T) ==
    IF S >= 0 THEN T > 0 /\ 2 * S * S < T * T
    ELSE T >= 0 \/ 2 * S * S > T * T

RECURSIVE SumR(_)
SumR(xs) == IF xs = <<>> THEN 0 ELSE Head(xs).r + SumR(Tail(xs))

RECURSIVE SumS(_)
SumS(xs) == IF xs = <<>> THEN 0 ELSE Head(xs).s + SumS(Tail(xs))

\* Series.mean(): NaN for an empty series, else the sum over the count
Mean(xs) ==
    IF xs = <<>> THEN NaN
    ELSE [sum |-> [r |-> SumR(xs), s |-> SumS(xs)], n |-> Len(xs)]

\* Series.std(ddof=0): NaN for an empty series, else the population standard
\* deviation of the listed values (kept as the values it is taken over)
Std(xs) == IF xs = <<>> THEN NaN ELSE [std_of |-> xs]

\* avg < c for a mean avg and an integer c; FALSE when avg is NaN
MeanLt(avg, c) ==
    /\ avg # NaN
    /\ LtSqrt2(avg.sum.s, 2 * avg.n * c - avg.sum.r)

----------------------------------------------------------------------------
(* blank_wide.py *)

LowerRule(name) ==
    CASE name = "HALF" -> "half"
      [] name = "SQRT2" -> "sqrt2"
      [] name = "ZERO" -> "zero"
      [] name = "DL" -> "dl"
      [] OTHER -> name

Blank_bdl_substitution_caseSensitive(dl, rule) ==
    IF rule.kind = "num" THEN Num(rule.v)
    ELSE CASE rule.name = "half" -> [r |-> dl, s |-> 0]
           [] rule.name = "sqrt2" -> [r |-> 0, s |-> dl]
           [] rule.name = "zero" -> Num(0)
           [] rule.name = "dl" -> Num(dl)
           [] OTHER -> [r |-> dl, s |-> 0]

\* a rule is [kind |-> "num", v |-> k] (int or float) or [kind |-> "sym", name |-> ...]
Blank_bdl_substitution(dl, rule) ==
    IF rule.kind = "num" THEN Num(rule.v)
    ELSE LET name == LowerRule(rule.name)
         IN  CASE name = "half" -> [r |-> dl, s |-> 0]
               [] name = "sqrt2" -> [r |-> 0, s |-> dl]
               [] name = "zero" -> Num(0)
               [] name = "dl" -> Num(dl)
               [] OTHER -> [r |-> dl, s |-> 0]

Blank_is_bdl(x) == x.kind = "lt"

Blank_to_numeric_with_bdl(x, dl, rule) ==
    IF IsNa(x) THEN NaN
    ELSE IF Blank_is_bdl(x) THEN Blank_bdl_substitution(dl, rule)
    ELSE IF x.kind = "num" THEN Num(x.v)
    ELSE NaN

\* QC_Type.str.contains("Blank", na=False) over the classifier's labels
ContainsBlank(qc_type) == qc_type = "Blank"

DropNa(xs) == SelectSeq(xs, LAMBDA v : v # NaN)

BlankStatus_censoredLast(raw, avg, dl, tf) ==
    IF MeanLt(avg, dl) THEN "OK"
    ELSE IF MeanLt(avg, dl * tf) THEN "Needs Investigation"
    ELSE IF \E i \in DOMAIN raw : Blank_is_bdl(raw[i]) THEN "OK"
    ELSE "Fail"

\* lines 111-125: the status of a column that is not all missing
BlankStatus(raw, avg, dl, tf) ==
    IF \E i \in DOMAIN raw : Blank_is_bdl(raw[i]) THEN "OK"
    ELSE IF MeanLt(avg, dl) THEN "OK"
    ELSE IF MeanLt(avg, dl * tf) THEN "Needs Investigation"
    ELSE "Fail"

BlankRecord_keepStats(meta, raw, tf, rule) ==
    LET dl == meta.dl
        numeric == [i \in DOMAIN raw |->
                        Blank_to_numeric_with_bdl(raw[i], dl, rule)]
        valid == DropNa(numeric)
        avg == Mean(valid)
        stdev == Std(valid)
    IN  [Analyte |-> meta.analyte, Unit |-> meta.unit, DL |-> dl,
         Values |-> raw, Average |-> avg, StDev |-> stdev,
         Blank_Status |-> IF \A i \in DOMAIN raw : IsNa(raw[i])
                          THEN "NotEvaluated"
                          ELSE BlankStatus(raw, avg, dl, tf)]

\* lines 88-137: the record of one analyte's blank column
BlankRecord(meta, raw, tf, rule) ==
    LET dl == meta.dl
        numeric == [i \in DOMAIN raw |->
                        Blank_to_numeric_with_bdl(raw[i], dl, rule)]
        valid == DropNa(numeric)
        avg == Mean(valid)
        stdev == Std(valid)
    IN  IF \A i \in DOMAIN raw : IsNa(raw[i])
        THEN [Analyte |-> meta.analyte, Unit |-> meta.unit, DL |-> dl,
              Values |-> raw, Average |-> EmptyStr, StDev |-> EmptyStr,
              Blank_Status |-> "NotEvaluated"]
        ELSE [Analyte |-> meta.analyte, Unit |-> meta.unit, DL |-> dl,
              Values |-> raw, Average |-> avg, StDev |-> stdev,
              Blank_Status |-> BlankStatus(raw, avg, dl, tf)]

BlankColumns ==
    {"Analyte", "Unit", "DL", "Values", "Average", "StDev", "Blank_Status"}

\* the loop over metadata.items(): one record per analyte with a mapped column
RECURSIVE BlankLoop(_, _, _, _, _)
BlankLoop(metas, columns, df_blank, tf, rule) ==
    IF metas = <<>> THEN <<>>
    ELSE LET meta == Head(metas)
             col == ColName(meta)
             rest == BlankLoop(Tail(metas), columns, df_blank, tf, rule)
         IN  IF col \notin columns THEN rest
             ELSE LET raw == [i \in DOMAIN df_blank |-> df_blank[i].cells[col]]
                  IN  <<BlankRecord(meta, raw, tf, rule)>> \o rest

compute_blank_qc(d, metas, tf, rule) ==
    LET df_blank == SelectSeq(d.rows, LAMBDA rw : ContainsBlank(rw.QC_Type))
        results == BlankLoop(metas, d.columns, df_blank, tf, rule)
    IN  IF df_blank = <<>> THEN EmptyFrame
        ELSE IF results = <<>> THEN Raised("ValueError")
        ELSE [columns |-> BlankColumns, rows |-> results]

----------------------------------------------------------------------------
(* duplicate_wide.py *)

Dup_bdl_substitution(dl) == [r |-> dl, s |-> 0]

\* str.replace(pat, ""): every occurrence of pat, left to right
RECURSIVE RemoveSub(_, _)
RemoveSub(str, pat) ==
    IF Len(str) < Len(pat) THEN str
    ELSE IF SubSeq(str, 1, Len(pat)) = pat
         THEN RemoveSub(SubSeq(str, Len(pat) + 1, Len(str)), pat)
    ELSE <<Head(str)>> \o RemoveSub(Tail(str), pat)

RECURSIVE LStrip(_)
LStrip(str) ==
    IF str # <<>> /\ Head(str) = " " THEN LStrip(Tail(str)) ELSE str

RECURSIVE RStrip(_)
RStrip(str) ==
    IF str # <<>> /\ str[Len(str)] = " "
    THEN RStrip(SubSeq(str, 1, Len(str) - 1)) ELSE str

Strip(str) == RStrip(LStrip(str))

\* samples are strings here, so the isinstance guard never returns None
Dup_base_name(sample) ==
    Strip(RemoveSub(RemoveSub(sample, <<" ", "O", "r", "i", "g">>),
                    <<" ", "D", "u", "p">>))

Dup_is_bdl(x) == x.kind = "lt"

Dup_to_numeric_with_bdl(x, dl) ==
    IF IsNa(x) THEN NaN
    ELSE IF Dup_is_bdl(x) THEN Dup_bdl_substitution(dl)
    ELSE IF x.kind = "num" THEN Num(x.v)
    ELSE NaN

\* x > c for a proxy x and an integer c; FALSE when x is NaN
NumGt(x, c) == x # NaN /\ LtSqrt2(0 - x.s, x.r - 2 * c)

\* |o - d| / ((o + d) / 2) * 100 on two proxies, as the fraction num/den;
\* NaN propagates, x/0 is inf and 0/0 is NaN as in numpy
RPDValue(o, d) ==
    IF o = NaN \/ d = NaN THEN NaN
    ELSE LET diff == IF o.r >= d.r THEN o.r - d.r ELSE d.r - o.r
             den == o.r + d.r
         IN  IF den = 0 THEN (IF diff = 0 THEN NaN ELSE Inf)
             ELSE [num |-> 200 * diff, den |-> den]

\* pd.to_numeric(rpd, errors="coerce").notna()
RpdNotNa(rpd) == rpd \notin {NaN, None, EmptyStr}

\* rpd_num <= tol, for a numeric rpd whose denominator is positive, or inf
RpdLe(rpd, tol) == rpd # Inf /\ rpd.num <= tol * rpd.den

Above10x_origOnly(orig_num, dup_num, dl) == NumGt(orig_num, 10 * dl)

Above10x_either(orig_num, dup_num, dl) ==
    NumGt(orig_num, 10 * dl) \/ NumGt(dup_num, 10 * dl)

\* line 91
Above10x(orig_num, dup_num, dl) ==
    NumGt(orig_num, 10 * dl) /\ NumGt(dup_num, 10 * dl)

DupMasks_noBlankGuard(orig_raw, dup_raw, above_10x) ==
    LET orig_bdl == Dup_is_bdl(orig_raw)
        dup_bdl == Dup_is_bdl(dup_raw)
        blank_mask == IsNa(orig_raw) \/ IsNa(dup_raw)
    IN  [blank_mask |-> blank_mask,
         both_bdl |-> orig_bdl /\ dup_bdl,
         bdl_mismatch |-> (orig_bdl /\ ~dup_bdl) \/ (dup_bdl /\ ~orig_bdl),
         low_grade |-> ~orig_bdl /\ ~dup_bdl /\ ~blank_mask /\ ~above_10x,
         valid |-> above_10x /\ ~blank_mask /\ ~orig_bdl /\ ~dup_bdl]

\* lines 77-84, 102, 107, 116, 121: the case masks of one pair
DupMasks(orig_raw, dup_raw, above_10x) ==
    LET orig_bdl == Dup_is_bdl(orig_raw)
        dup_bdl == Dup_is_bdl(dup_raw)
        blank_mask == IsNa(orig_raw) \/ IsNa(dup_raw)
    IN  [blank_mask |-> blank_mask,
         both_bdl |-> orig_bdl /\ dup_bdl /\ ~blank_mask,
         bdl_mismatch |-> ((orig_bdl /\ ~dup_bdl) \/ (dup_bdl /\ ~orig_bdl))
                          /\ ~blank_mask,
         low_grade |-> ~orig_bdl /\ ~dup_bdl /\ ~blank_mask /\ ~above_10x,
         valid |-> above_10x /\ ~blank_mask /\ ~orig_bdl /\ ~dup_bdl]

DupTolStatus_strict(rpd, tol, prev) ==
    IF RpdNotNa(rpd) /\ rpd # Inf /\ rpd.num < tol * rpd.den THEN "OK"
    ELSE IF RpdNotNa(rpd) THEN "Fail_RPD"
    ELSE prev

\* lines 128-133: the status of a pair in the valid mask, prev otherwise kept
DupTolStatus(rpd, tol, prev) ==
    LET le == RpdNotNa(rpd) /\ RpdLe(rpd, tol)
        gt == RpdNotNa(rpd) /\ ~RpdLe(rpd, tol)
        s1 == IF le THEN "OK" ELSE prev
    IN  IF gt THEN "Fail_RPD" ELSE s1

\* lines 74-147 for one matched pair: the masks applied in the code's order
DupRecord(meta, base, orig_raw, dup_raw, tol) ==
    LET dl == meta.dl
        orig_num == Dup_to_numeric_with_bdl(orig_raw, dl)
        dup_num == Dup_to_numeric_with_bdl(dup_raw, dl)
        above_10x == Above10x(orig_num, dup_num, dl)
        m == DupMasks(orig_raw, dup_raw, above_10x)
        rpd0 == None
        status0 == ""
        rpd1 == IF m.blank_mask THEN EmptyStr ELSE rpd0
        status1 == IF m.blank_mask THEN "NotEvaluated" ELSE status0
        rpd2 == IF m.both_bdl THEN EmptyStr ELSE rpd1
        status2 == IF m.both_bdl THEN "BothBDL" ELSE status1
        rpd3 == IF m.bdl_mismatch THEN RPDValue(orig_num, dup_num) ELSE rpd2
        status3 == IF m.bdl_mismatch THEN "BDL_Substitution" ELSE status2
        rpd4 == IF m.low_grade THEN EmptyStr ELSE rpd3
        status4 == IF m.low_grade THEN "Below10xDL" ELSE status3
        rpd5 == IF m.valid THEN RPDValue(orig_num, dup_num) ELSE rpd4
        status5 == IF m.valid THEN DupTolStatus(rpd5, tol, status4)
                   ELSE status4
    IN  [Sample |-> base, Analyte |-> meta.analyte, Unit |-> meta.unit,
         Orig |-> orig_raw, Dup |-> dup_raw,
         Orig_num |-> orig_num, Dup_num |-> dup_num, DL |-> dl,
         Above10xDL |-> above_10x, RPD |-> rpd5, Status |-> status5]

\* QC_Type.str.contains("Duplicate", na=False) over the classifier's labels
ContainsDuplicate(qc_type) == qc_type \in {"Duplicate_Orig", "Duplicate_Dup"}

RECURSIVE MergeOnBase_cross(_, _)
MergeOnBase_cross(origs, dupes) ==
    IF origs = <<>> THEN <<>>
    ELSE LET o == Head(origs)
         IN  [i \in DOMAIN dupes |->
                 [DUP_Base |-> Dup_base_name(o.Sample), orig |-> o, dup |-> dupes[i]]]
             \o MergeOnBase_cross(Tail(origs), dupes)

\* pd.merge(df_orig, df_dupe, on="DUP_Base"): the inner join, in the order of
\* the left rows and, for one left row, of the right rows
RECURSIVE MergeOnBase(_, _)
MergeOnBase(origs, dupes) ==
    IF origs = <<>> THEN <<>>
    ELSE LET o == Head(origs)
             hits == SelectSeq(dupes,
                        LAMBDA d : Dup_base_name(d.Sample) = Dup_base_name(o.Sample))
         IN  [i \in DOMAIN hits |->
                 [DUP_Base |-> Dup_base_name(o.Sample), orig |-> o, dup |-> hits[i]]]
             \o MergeOnBase(Tail(origs), dupes)

DupColumns ==
    {"Sample", "Analyte", "Unit", "Orig", "Dup", "Orig_num", "Dup_num", "DL",
     "Above10xDL", "RPD", "Status"}

\* the loop over metadata.items(): per mapped analyte, one record per pair
RECURSIVE DupLoop(_, _, _, _)
DupLoop(metas, columns, merged, tol) ==
    IF metas = <<>> THEN <<>>
    ELSE LET meta == Head(metas)
             col == ColName(meta)
             rest == DupLoop(Tail(metas), columns, merged, tol)
         IN  IF col \notin columns THEN rest
             ELSE <<[i \in DOMAIN merged |->
                       DupRecord(meta, merged[i].DUP_Base,
                                 merged[i].orig.cells[col],
                                 merged[i].dup.cells[col], tol)]>> \o rest

RECURSIVE Concat(_)
Concat(frames) ==
    IF frames = <<>> THEN <<>> ELSE Head(frames) \o Concat(Tail(frames))

compute_duplicate_rpd(d, metas, tol) ==
    LET df_dup == SelectSeq(d.rows, LAMBDA rw : ContainsDuplicate(rw.QC_Type))
        df_orig == SelectSeq(df_dup, LAMBDA rw : rw.QC_Type = "Duplicate_Orig")
        df_dupe == SelectSeq(df_dup, LAMBDA rw : rw.QC_Type = "Duplicate_Dup")
        merged == MergeOnBase(df_orig, df_dupe)
        results == DupLoop(metas, d.columns, merged, tol)
    IN  IF results # <<>>
        THEN [columns |-> DupColumns, rows |-> Concat(results)]
        ELSE EmptyFrame

----------------------------------------------------------------------------
(* crm_wide.py *)

\* lines 4-7; samples are strings here
Crm_base_name(sample) ==
    Strip(RemoveSub(RemoveSub(sample, <<" ", "M", "e", "a", "s">>),
                    <<" ", "C", "e", "r", "t">>))

\* Series.str.contains(pat, na=False) on one name
RECURSIVE Contains(_, _)
Contains(str, pat) ==
    IF Len(str) < Len(pat) THEN FALSE
    ELSE IF SubSeq(str, 1, Len(pat)) = pat THEN TRUE
    ELSE Contains(Tail(str), pat)

\* groupby("CRM_Base").cumcount() of row i: the earlier rows of its base
CumCount(rows, i) ==
    Cardinality({j \in 1..(i - 1) :
                    Crm_base_name(rows[j].Sample) = Crm_base_name(rows[i].Sample)})

\* the rows with their CRM_Base and CRM_Index
Indexed(rows) ==
    [i \in DOMAIN rows |->
        [CRM_Base |-> Crm_base_name(rows[i].Sample),
         CRM_Index |-> CumCount(rows, i), row |-> rows[i]]]

CrmJoin_baseOnly(m, c) == m.CRM_Base = c.CRM_Base

\* line 32: the keys of the merge
CrmJoin(m, c) == m.CRM_Base = c.CRM_Base /\ m.CRM_Index = c.CRM_Index

\* lines 29-34: the inner join of the indexed Meas and Cert rows, in the
\* order of the Meas rows
RECURSIVE MergeCrm(_, _)
MergeCrm(meas, cert) ==
    IF meas = <<>> THEN <<>>
    ELSE LET m == Head(meas)
             hits == SelectSeq(cert, LAMBDA c : CrmJoin(m, c))
         IN  [i \in DOMAIN hits |->
                 [CRM_Base |-> m.CRM_Base, meas |-> m.row, cert |-> hits[i].row]]
             \o MergeCrm(Tail(meas), cert)

CrmClean_substitute(x, dl) ==
    IF x.kind = "num" THEN Num(x.v)
    ELSE IF x.kind = "lt" THEN [r |-> dl, s |-> 0]
    ELSE NaN

\* lines 56-64: "<X" and ">X" become NaN, then pd.to_numeric(errors="coerce"):
\* a missing cell is the string "nan" after astype(str) and parses to NaN,
\* any other string that is no number is coerced to NaN
CrmClean(x, dl) ==
    IF x.kind \in {"lt", "gt"} THEN NaN
    ELSE IF x.kind = "num" THEN Num(x.v)
    ELSE NaN

\* x < c for a number x and an integer c; FALSE when x is NaN
NumLt(x, c) == x # NaN /\ LtSqrt2(x.s, 2 * c - x.r)

\* x >= c; FALSE when x is NaN
NumGe(x, c) == x # NaN /\ ~LtSqrt2(x.s, 2 * c - x.r)

CrmMasks_noCertBelow(measured, certified, dl) ==
    LET meas_blank == measured = NaN
        cert_blank == certified = NaN
        both_missing == meas_blank /\ cert_blank
        one_missing == (meas_blank \/ cert_blank) /\ ~both_missing
        mask_cert_below == FALSE
        mask_cert_below_10x ==
            NumLt(certified, 10 * dl)
                /\ ~(both_missing \/ one_missing \/ mask_cert_below)
        mask_needs_inv ==
            NumGe(certified, dl) /\ NumLt(measured, dl)
                /\ ~(both_missing \/ one_missing \/ mask_cert_below
                       \/ mask_cert_below_10x)
        valid_mask ==
            ~(both_missing \/ one_missing \/ mask_cert_below
                \/ mask_cert_below_10x \/ mask_needs_inv)
                /\ measured # NaN /\ certified # NaN
    IN  [both_missing |-> both_missing, one_missing |-> one_missing,
         mask_cert_below |-> mask_cert_below,
         mask_cert_below_10x |-> mask_cert_below_10x,
         mask_needs_inv |-> mask_needs_inv, valid_mask |-> valid_mask]

CrmMasks_needsInvFirst(measured, certified, dl) ==
    LET meas_blank == measured = NaN
        cert_blank == certified = NaN
        both_missing == meas_blank /\ cert_blank
        one_missing == (meas_blank \/ cert_blank) /\ ~both_missing
        mask_cert_below ==
            NumLt(certified, dl) /\ ~(both_missing \/ one_missing)
        mask_needs_inv ==
            NumGe(certified, dl) /\ NumLt(measured, dl)
                /\ ~(both_missing \/ one_missing \/ mask_cert_below)
        mask_cert_below_10x ==
            NumLt(certified, 10 * dl)
                /\ ~(both_missing \/ one_missing \/ mask_cert_below
                       \/ mask_needs_inv)
        valid_mask ==
            ~(both_missing \/ one_missing \/ mask_cert_below
                \/ mask_cert_below_10x \/ mask_needs_inv)
                /\ measured # NaN /\ certified # NaN
    IN  [both_missing |-> both_missing, one_missing |-> one_missing,
         mask_cert_below |-> mask_cert_below,
         mask_cert_below_10x |-> mask_cert_below_10x,
         mask_needs_inv |-> mask_needs_inv, valid_mask |-> valid_mask]

\* lines 66-71, 89-90, 97-98, 105-109, 116-117: the case masks of one pair
CrmMasks(measured, certified, dl) ==
    LET meas_blank == measured = NaN
        cert_blank == certified = NaN
        both_missing == meas_blank /\ cert_blank
        one_missing == (meas_blank \/ cert_blank) /\ ~both_missing
        mask_cert_below ==
            NumLt(certified, dl) /\ ~(both_missing \/ one_missing)
        mask_cert_below_10x ==
            NumLt(certified, 10 * dl)
                /\ ~(both_missing \/ one_missing \/ mask_cert_below)
        mask_needs_inv ==
            NumGe(certified, dl) /\ NumLt(measured, dl)
                /\ ~(both_missing \/ one_missing \/ mask_cert_below
                       \/ mask_cert_below_10x)
        valid_mask ==
            ~(both_missing \/ one_missing \/ mask_cert_below
                \/ mask_cert_below_10x \/ mask_needs_inv)
                /\ measured # NaN /\ certified # NaN
    IN  [both_missing |-> both_missing, one_missing |-> one_missing,
         mask_cert_below |-> mask_cert_below,
         mask_cert_below_10x |-> mask_cert_below_10x,
         mask_needs_inv |-> mask_needs_inv, valid_mask |-> valid_mask]

BDLMarker == [str |-> "BDL"]

\* line 119: measured / certified * 100 as the exact fraction num/den (the
\* double the code computes is within one rounding of it, and compares with
\* the tolerances of CrmTolerances as the fraction does for the values of
\* CrmCells); x/0 is inf and 0/0 is NaN as in numpy
RecoveryValue(measured, certified) ==
    IF certified.r = 0 THEN (IF measured.r = 0 THEN NaN ELSE Inf)
    ELSE [num |-> 100 * measured.r, den |-> certified.r]

\* line 120: recovery - 100
BiasValue(recovery) ==
    IF recovery \in {NaN, Inf} THEN recovery
    ELSE [num |-> recovery.num - 100 * recovery.den, den |-> recovery.den]

\* pd.to_numeric(recovery, errors="coerce").notna()
RecoveryNotNa(rec) == rec \notin {NaN, None, EmptyStr, BDLMarker}

\* recovery_num >= tol and recovery_num <= tol, for a fraction with a
\* positive denominator, or inf
RecGe(rec, tol) == IF rec = Inf THEN TRUE ELSE rec.num >= tol * rec.den
RecLe(rec, tol) == IF rec = Inf THEN FALSE ELSE rec.num <= tol * rec.den

CrmTolStatus_strict(rec, low, high, prev) ==
    IF ~RecoveryNotNa(rec) THEN prev
    ELSE IF rec # Inf /\ rec.num > low * rec.den /\ rec.num < high * rec.den
         THEN "OK"
    ELSE "Fail"

\* lines 122-127: the status of a pair in the valid mask, prev otherwise kept
CrmTolStatus(rec, low, high, prev) ==
    LET numeric == RecoveryNotNa(rec)
        s1 == IF numeric /\ RecGe(rec, low) /\ RecLe(rec, high)
              THEN "OK" ELSE prev
    IN  IF numeric /\ (~RecGe(rec, low) \/ ~RecLe(rec, high))
        THEN "Fail" ELSE s1

\* lines 53-141 for one pair: the masks applied in the code's order
CrmRecord(meta, base, meas_raw, cert_raw, low, high) ==
    LET dl == meta.dl
        measured == CrmClean(meas_raw, dl)
        certified == CrmClean(cert_raw, dl)
        m == CrmMasks(measured, certified, dl)
        rec1 == IF m.both_missing THEN EmptyStr ELSE None
        st1 == IF m.both_missing THEN "NotApplicable" ELSE ""
        rec2 == IF m.one_missing THEN EmptyStr ELSE rec1
        st2 == IF m.one_missing THEN "NotEvaluated" ELSE st1
        rec3 == IF m.mask_cert_below THEN EmptyStr ELSE rec2
        st3 == IF m.mask_cert_below THEN "NotApplicable" ELSE st2
        rec4 == IF m.mask_cert_below_10x THEN EmptyStr ELSE rec3
        st4 == IF m.mask_cert_below_10x THEN "Below10xDL" ELSE st3
        rec5 == IF m.mask_needs_inv THEN BDLMarker ELSE rec4
        st5 == IF m.mask_needs_inv THEN "Needs Investigation" ELSE st4
        rec6 == IF m.valid_mask THEN RecoveryValue(measured, certified)
                ELSE rec5
        bias6 == IF m.valid_mask THEN BiasValue(rec6) ELSE rec5
        st6 == IF m.valid_mask THEN CrmTolStatus(rec6, low, high, st5)
               ELSE st5
    IN  [CRM |-> base, Analyte |-> meta.analyte, Unit |-> meta.unit,
         Measured |-> measured, Certified |-> certified, DL |-> dl,
         Recovery |-> rec6, Bias |-> bias6, CRM_Status |-> st6]

\* the loop over metadata.items(): per mapped analyte, one record per pair
RECURSIVE CrmLoop(_, _, _, _, _)
CrmLoop(metas, columns, merged, low, high) ==
    IF metas = <<>> THEN <<>>
    ELSE LET meta == Head(metas)
             col == ColName(meta)
             rest == CrmLoop(Tail(metas), columns, merged, low, high)
         IN  IF col \notin columns THEN rest
             ELSE <<[i \in DOMAIN merged |->
                       CrmRecord(meta, merged[i].CRM_Base,
                                 merged[i].meas.cells[col],
                                 merged[i].cert.cells[col], low, high)]>> \o rest

CrmResultColumns ==
    {"CRM", "Analyte", "Unit", "Measured", "Certified", "DL", "Recovery",
     "Bias", "CRM_Status"}

compute_crm_recovery(d, metas, low, high) ==
    LET df_crm == SelectSeq(d.rows, LAMBDA rw : rw.QC_Type = "CRM")
        df_meas == SelectSeq(df_crm,
                      LAMBDA rw : Contains(rw.Sample, <<" ", "M", "e", "a", "s">>))
        df_cert == SelectSeq(df_crm,
                      LAMBDA rw : Contains(rw.Sample, <<" ", "C", "e", "r", "t">>))
        merged == MergeCrm(Indexed(df_meas), Indexed(df_cert))
        results == CrmLoop(metas, d.columns, merged, low, high)
    IN  IF results # <<>>
        THEN [columns |-> CrmResultColumns, rows |-> Concat(results)]
        ELSE EmptyFrame

----------------------------------------------------------------------------
(* qc_summary.py: build_qc_summary *)

\* the characters of the names used, in code-point order
Chars ==
    <<" ", "/", "C", "D", "O", "S", "Z", "_", "a", "g", "i", "m", "n", "p",
      "r", "t", "u">>

CharCode(c) == CHOOSE i \in DOMAIN Chars : Chars[i] = c

RECURSIVE StrLess(_, _)
StrLess(a, b) ==
    IF b = <<>> THEN FALSE
    ELSE IF a = <<>> THEN TRUE
    ELSE IF Head(a) # Head(b) THEN CharCode(Head(a)) < CharCode(Head(b))
    ELSE StrLess(Tail(a), Tail(b))

\* the order of groupby's sorted keys (Analyte, Unit)
KeyLess(k1, k2) ==
    StrLess(k1[1], k2[1]) \/ (k1[1] = k2[1] /\ StrLess(k1[2], k2[2]))

KeyOf(r) == <<r.Analyte, r.Unit>>

KeysOf(rows) == {KeyOf(rows[i]) : i \in DOMAIN rows}

RECURSIVE SortKeys(_)
SortKeys(keys) ==
    IF keys = {} THEN <<>>
    ELSE LET least == CHOOSE k \in keys : \A o \in keys \ {k} : KeyLess(k, o)
         IN  <<least>> \o SortKeys(keys \ {least})

\* pd.to_numeric(x, errors="coerce") on one entry of an object column
ToNumeric(x) == IF "str" \in DOMAIN x \/ x = None THEN NaN ELSE x

\* the mean of a numeric column of a group: NaN entries skipped, NaN when
\* none is left (kept as the values it is taken over)
MeanOf(xs) ==
    LET kept == DropNa(xs)
    IN  IF kept = <<>> THEN NaN ELSE [mean_of |-> kept]

\* lines 71-75, 154-158, 214-218: the status column of a module's table
StatusColumn(t, name, r) ==
    IF name \in t.columns THEN r[name]
    ELSE IF "Status" \in t.columns THEN r.Status
    ELSE "NotEvaluated"

Group(t, key) == SelectSeq(t.rows, LAMBDA r : KeyOf(r) = key)

\* lines 82-100
reduce_crm(t, key) ==
    LET group == Group(t, key)
        sts == [i \in DOMAIN group |-> StatusColumn(t, "CRM_Status", group[i])]
    IN  [Analyte |-> key[1], Unit |-> key[2],
         CRM_Recovery |-> MeanOf([i \in DOMAIN group |-> ToNumeric(group[i].Recovery)]),
         CRM_Bias |-> MeanOf([i \in DOMAIN group |-> ToNumeric(group[i].Bias)]),
         CRM_PassCount |-> Count(sts, "OK"),
         CRM_FailCount |-> Count(sts, "Fail"),
         CRM_NeedsInvestigationCount |-> Count(sts, "Needs Investigation"),
         CRM_Below10xDLCount |-> Count(sts, "Below10xDL"),
         CRM_NotApplicableCount |-> Count(sts, "NotApplicable"),
         CRM_NotEvaluatedCount |-> Count(sts, "NotEvaluated"),
         CRM_TotalEvaluated |-> Count(sts, "OK") + Count(sts, "Fail")
                                 + Count(sts, "Needs Investigation"),
         CRM_FinalStatus |-> compute_crm_final_status(sts)]

CrmSmallColumns ==
    {"Analyte", "Unit", "CRM_Recovery", "CRM_Bias", "CRM_PassCount",
     "CRM_FailCount", "CRM_NeedsInvestigationCount", "CRM_Below10xDLCount",
     "CRM_NotApplicableCount", "CRM_NotEvaluatedCount", "CRM_TotalEvaluated",
     "CRM_FinalStatus"}

\* lines 140-147: the empty table's columns (without CRM_Below10xDLCount)
CrmSmallEmptyColumns == CrmSmallColumns \ {"CRM_Below10xDLCount"}

\* lines 162-178
reduce_dup(t, key) ==
    LET group == Group(t, key)
        sts == [i \in DOMAIN group |->
                   StatusColumn(t, "Duplicate_Status", group[i])]
    IN  [Analyte |-> key[1], Unit |-> key[2],
         Duplicate_RPD |-> MeanOf([i \in DOMAIN group |-> ToNumeric(group[i].RPD)]),
         Duplicate_PassCount |-> Count(sts, "OK"),
         Duplicate_FailCount |-> Count(sts, "Fail_RPD"),
         Duplicate_BDLSubCount |-> Count(sts, "BDL_Substitution"),
         Duplicate_BothBDLCount |-> Count(sts, "BothBDL"),
         Duplicate_Below10xDLCount |-> Count(sts, "Below10xDL"),
         Duplicate_NotEvaluatedCount |-> Count(sts, "NotEvaluated"),
         Duplicate_TotalEvaluated |-> Count(sts, "OK") + Count(sts, "Fail_RPD"),
         Duplicate_Status |-> compute_dup_final_status(sts)]

DupSmallColumns ==
    {"Analyte", "Unit", "Duplicate_RPD", "Duplicate_PassCount",
     "Duplicate_FailCount", "Duplicate_BDLSubCount", "Duplicate_BothBDLCount",
     "Duplicate_Below10xDLCount", "Duplicate_NotEvaluatedCount",
     "Duplicate_TotalEvaluated", "Duplicate_Status"}

BlankSmallColumns ==
    {"Analyte", "Unit", "Blank_Average", "Blank_StDev", "Blank_Status"}

\* lines 220-225
BlankSmallRow(t, r) ==
    [Analyte |-> r.Analyte, Unit |-> r.Unit, Blank_Average |-> r.Average,
     Blank_StDev |-> r.StDev,
     Blank_Status |-> StatusColumn(t, "Blank_Status", r)]

\* lines 68-147
CrmSmall(crm) ==
    IF ~IsEmptyFrame(crm)
    THEN LET keys == SortKeys(KeysOf(crm.rows))
         IN  [columns |-> CrmSmallColumns,
              rows |-> [i \in DOMAIN keys |-> reduce_crm(crm, keys[i])]]
    ELSE [columns |-> CrmSmallEmptyColumns, rows |-> <<>>]

\* lines 152-207
DupSmall(dup) ==
    IF ~IsEmptyFrame(dup)
    THEN LET keys == SortKeys(KeysOf(dup.rows))
         IN  [columns |-> DupSmallColumns,
              rows |-> [i \in DOMAIN keys |-> reduce_dup(dup, keys[i])]]
    ELSE [columns |-> DupSmallColumns, rows |-> <<>>]

\* lines 212-231
BlankSmall(blank) ==
    IF ~IsEmptyFrame(blank)
    THEN [columns |-> BlankSmallColumns,
          rows |-> [i \in DOMAIN blank.rows |-> BlankSmallRow(blank, blank.rows[i])]]
    ELSE [columns |-> BlankSmallColumns, rows |-> <<>>]

StatusColumns == {"CRM_FinalStatus", "Duplicate_Status", "Blank_Status"}

\* what a left join writes where the right table has no row for the key
NaFill(c) == IF c \in StatusColumns THEN NaNStatus ELSE NaN

\* pd.merge(left, right, on=["Analyte", "Unit"], how="left")
RECURSIVE LeftJoinRows(_, _)
LeftJoinRows(lrows, right) ==
    IF lrows = <<>> THEN <<>>
    ELSE LET l == Head(lrows)
             hits == SelectSeq(right.rows, LAMBDA r : KeyOf(r) = KeyOf(l))
             fill == [c \in right.columns \ {"Analyte", "Unit"} |-> NaFill(c)]
         IN  (IF hits = <<>> THEN <<l @@ fill>>
              ELSE [i \in DOMAIN hits |-> l @@ hits[i]])
             \o LeftJoinRows(Tail(lrows), right)

\* lines 8-12, on_cols = ["Analyte", "Unit"]
safe_merge(left, right) ==
    IF (IF right = None THEN TRUE ELSE Len(right.rows) = 0) THEN left
    ELSE [columns |-> left.columns \cup right.columns,
          rows |-> LeftJoinRows(left.rows, right)]

\* lines 248-266
ColOrder ==
    CrmSmallColumns \cup DupSmallColumns \cup BlankSmallColumns
        \cup {"Final_QC_Flag"}

\* lines 55-270; summary[col_order] raises KeyError when a column is absent
build_qc_summary(crm, dup, blank) ==
    LET crm_small == CrmSmall(crm)
        dup_small == DupSmall(dup)
        blank_small == BlankSmall(blank)
        merged == safe_merge(safe_merge(crm_small, dup_small), blank_small)
        flagged == [columns |-> merged.columns \cup {"Final_QC_Flag"},
                    rows |-> [i \in DOMAIN merged.rows |->
                                 merged.rows[i] @@
                                 [Final_QC_Flag |-> final_flag(merged.rows[i])]]]
    IN  IF ColOrder \subseteq flagged.columns
        THEN [columns |-> ColOrder, rows |-> flagged.rows]
        ELSE Raised("KeyError")

----------------------------------------------------------------------------
(* State machines.  Each specification draws the arguments of one          *)
(* operation in its initial state and applies the operation once; the      *)
(* variables of the other operations stay idle.                            *)

Unset == "unset"

IdleFlag == row = None /\ flag = Unset
IdleCall == call_args = None /\ call_ret = None

IdleReduce == statuses = <<>> /\ crm_final = Unset /\ dup_final = Unset

IdleSummary ==
    crm_results = None /\ dup_results = None /\ blank_results = None
        /\ summary = None

IdleEval ==
    df = None /\ metadata = <<>> /\ tolerance_factor = 0 /\ bdl_rule = None
        /\ rpd_tolerance = 0 /\ low_tol = 0 /\ high_tol = 0

flagVars == <<row, flag>>
callVars == <<call_args, call_ret>>
reduceVars == <<statuses, crm_final, dup_final>>
summaryVars == <<crm_results, dup_results, blank_results, summary>>
evalVars ==
    <<df, metadata, tolerance_factor, bdl_rule, rpd_tolerance, low_tol, high_tol>>

----------------------------------------------------------------------------
(* final_flag applied to one summary row *)

CrmFinals ==
    {"Fail", "Needs Investigation", "OK", "NotApplicable", "NotEvaluated",
     NaNStatus}

DupFinals ==
    {"Fail", "Needs Investigation", "OK", "NotApplicable", "NotEvaluated",
     "BDL_Substitution", NaNStatus}

BlankFinals == {"OK", "Needs Investigation", "Fail", "NotEvaluated", NaNStatus}

\* rows with the three status columns, and rows of a summary that an empty
\* Duplicate or Blank table left without its columns
FlagRows ==
    [CRM_FinalStatus : CrmFinals, Duplicate_Status : DupFinals,
     Blank_Status : BlankFinals]
    \cup [CRM_FinalStatus : CrmFinals, Duplicate_Status : DupFinals]
    \cup [CRM_FinalStatus : CrmFinals, Blank_Status : BlankFinals]
    \cup [CRM_FinalStatus : CrmFinals]

InitFlag ==
    /\ pc = "start"
    /\ row \in FlagRows
    /\ flag = Unset
    /\ IdleReduce /\ IdleSummary /\ IdleEval /\ IdleCall

FinalFlag ==
    /\ pc = "start"
    /\ flag' = final_flag(row)
    /\ pc' = "done"
    /\ UNCHANGED <<row, callVars, reduceVars, summaryVars, evalVars>>

NextFlag == FinalFlag

SpecFlag == InitFlag /\ [][NextFlag]_vars

\* the status final_flag sees in a column: NotEvaluated when absent or NaN
Seen(key) ==
    IF key \in DOMAIN row /\ row[key] # NaNStatus THEN row[key]
    ELSE "NotEvaluated"

\* C1: final_flag follows the precedence, first match wins: any of the three
\* statuses Fail gives Fail; else CRM Needs Investigation gives Needs
\* Investigation; else Duplicate BDL_Substitution or NotEvaluated gives Needs
\* Investigation; else Blank Needs Investigation or NotEvaluated gives Needs
\* Investigation; else Pass.  OK/OK/OK gives Pass and the flag is always one
\* of Fail, Needs Investigation, Pass.
C1_FinalFlagPrecedence ==
    pc = "done" =>
        LET crm == Seen("CRM_FinalStatus")
            dup == Seen("Duplicate_Status")
            blank == Seen("Blank_Status")
            anyFail == "Fail" \in {crm, dup, blank}
            r2 == crm = "Needs Investigation"
            r3 == dup \in {"BDL_Substitution", "NotEvaluated"}
            r4 == blank \in {"Needs Investigation", "NotEvaluated"}
        IN  /\ anyFail => flag = "Fail"
            /\ ~anyFail /\ r2 => flag = "Needs Investigation"
            /\ ~anyFail /\ ~r2 /\ r3 => flag = "Needs Investigation"
            /\ ~anyFail /\ ~r2 /\ ~r3 /\ r4 => flag = "Needs Investigation"
            /\ ~anyFail /\ ~r2 /\ ~r3 /\ ~r4 => flag = "Pass"
            /\ (crm = "OK" /\ dup = "OK" /\ blank = "OK") => flag = "Pass"
            /\ flag \in {"Fail", "Needs Investigation", "Pass"}

\* rule 3 decides: CRM and Blank are OK and the Duplicate status is NotEvaluated
C1_Witness ==
    /\ pc = "done"
    /\ DOMAIN row = StatusColumns
    /\ row.CRM_FinalStatus = "OK" /\ row.Blank_Status = "OK"
    /\ row.Duplicate_Status = "NotEvaluated"
    /\ flag = "Needs Investigation"

----------------------------------------------------------------------------
(* the reducers applied to the status list of one (Analyte, Unit) group *)

MaxStatuses == 3

RunStatuses ==
    {"OK", "Fail", "Needs Investigation", "Below10xDL", "NotApplicable",
     "NotEvaluated", "Fail_RPD", "BDL_Substitution", "BothBDL"}

InitReduce ==
    /\ pc = "start"
    /\ \E n \in 1..MaxStatuses : statuses \in [1..n -> RunStatuses]
    /\ crm_final = Unset /\ dup_final = Unset
    /\ IdleFlag /\ IdleCall /\ IdleSummary /\ IdleEval

ReduceCrm ==
    /\ crm_final = Unset
    /\ crm_final' = compute_crm_final_status(statuses)
    /\ pc' = "done"
    /\ UNCHANGED <<statuses, dup_final, flagVars, callVars, summaryVars, evalVars>>

ReduceDup ==
    /\ dup_final = Unset
    /\ dup_final' = compute_dup_final_status(statuses)
    /\ pc' = "done"
    /\ UNCHANGED <<statuses, crm_final, flagVars, callVars, summaryVars, evalVars>>

NextReduce == ReduceCrm \/ ReduceDup

SpecReduce == InitReduce /\ [][NextReduce]_vars

\* the statuses of the list, as a set
Present == {statuses[i] : i \in DOMAIN statuses}

Fails == {i \in DOMAIN statuses : statuses[i] = "Fail"}

\* C2: the CRM reducer gives Fail for 2 or more Fail; Needs Investigation for
\* exactly 1 Fail; else Needs Investigation if any Needs Investigation; else
\* OK if any OK; else NotApplicable if every status is NotApplicable or
\* Below10xDL; else NotEvaluated.  The result depends only on how many Fail
\* the list holds and on which statuses occur, not on their order.
C2_CrmReducer ==
    crm_final # Unset =>
        crm_final =
            IF Cardinality(Fails) >= 2 THEN "Fail"
            ELSE IF Cardinality(Fails) = 1 THEN "Needs Investigation"
            ELSE IF "Needs Investigation" \in Present THEN "Needs Investigation"
            ELSE IF "OK" \in Present THEN "OK"
            ELSE IF Present \subseteq {"NotApplicable", "Below10xDL"}
                 THEN "NotApplicable"
            ELSE "NotEvaluated"

\* exactly one Fail beside an OK: Needs Investigation, not Fail
C2_Witness ==
    /\ crm_final = "Needs Investigation"
    /\ Cardinality(Fails) = 1
    /\ "OK" \in Present
    /\ "Needs Investigation" \notin Present

\* C3: the Duplicate reducer gives Fail if any status is Fail_RPD; else Needs
\* Investigation if any is BDL_Substitution; else Needs Investigation if any
\* is NotEvaluated; else OK if any is OK; else NotApplicable if every status
\* is BothBDL or Below10xDL; else NotEvaluated.
C3_DupReducer ==
    dup_final # Unset =>
        dup_final =
            IF "Fail_RPD" \in Present THEN "Fail"
            ELSE IF "BDL_Substitution" \in Present THEN "Needs Investigation"
            ELSE IF "NotEvaluated" \in Present THEN "Needs Investigation"
            ELSE IF "OK" \in Present THEN "OK"
            ELSE IF Present \subseteq {"BothBDL", "Below10xDL"}
                 THEN "NotApplicable"
            ELSE "NotEvaluated"

\* an OK pair beside a BDL_Substitution pair: Needs Investigation, not OK
C3_Witness ==
    /\ dup_final = "Needs Investigation"
    /\ "OK" \in Present
    /\ "BDL_Substitution" \in Present
    /\ "Fail_RPD" \notin Present

----------------------------------------------------------------------------
(* compute_blank_qc applied to one QC table *)

MaxRuns == 2
MaxBlankVal == 6

Cu == <<"C", "u">>
Zn == <<"Z", "n">>
Ppm == <<"p", "p", "m">>
GramPerTon == <<"g", "/", "t">>

\* the analyte column of the tables: "Cu_ppm"; "Zn_gt" is never a column
CuCol == <<"C", "u", "_", "p", "p", "m">>

DLs == {1, 2}

CuMeta(dl) == [analyte |-> Cu, unit |-> Ppm, dl |-> dl]
ZnMeta(dl) == [analyte |-> Zn, unit |-> GramPerTon, dl |-> dl]

Metadatas ==
    UNION {{<<CuMeta(dl)>>, <<ZnMeta(dl), CuMeta(dl)>>, <<ZnMeta(dl)>>} : dl \in DLs}

Missing == [kind |-> "nan"]
Censored == [kind |-> "lt", v |-> 1]
AboveRange == [kind |-> "gt", v |-> 9]
Text == [kind |-> "text"]
Number(v) == [kind |-> "num", v |-> v]

BlankCells ==
    {Missing, Censored, AboveRange, Text} \cup {Number(v) : v \in 0..MaxBlankVal}

SampleBlank == <<"B", "l", "k">>
SampleCrm == <<"S", "t", "d">>

BlankSpecRows ==
    {[Sample |-> SampleBlank, QC_Type |-> "Blank", cells |-> [c \in {CuCol} |-> x]] :
        x \in BlankCells}
    \cup {[Sample |-> SampleCrm, QC_Type |-> "CRM",
           cells |-> [c \in {CuCol} |-> Number(5)]]}

ToleranceFactors == {1, 2, 3}

Sym(name) == [kind |-> "sym", name |-> name]

BdlRules ==
    {Sym("half"), Sym("sqrt2"), Sym("zero"), Sym("dl"), Sym("SQRT2"),
     Sym("mean"), [kind |-> "num", v |-> 1]}

InitBlank ==
    /\ pc = "start"
    /\ \E n \in 0..MaxRuns : \E rs \in [1..n -> BlankSpecRows] :
           df = [columns |-> {CuCol}, rows |-> rs]
    /\ metadata \in Metadatas
    /\ tolerance_factor \in ToleranceFactors
    /\ bdl_rule \in BdlRules
    /\ rpd_tolerance = 0 /\ low_tol = 0 /\ high_tol = 0
    /\ IdleFlag /\ IdleCall /\ IdleReduce /\ IdleSummary

ComputeBlankQc ==
    /\ pc = "start"
    /\ blank_results' =
           compute_blank_qc(df, metadata, tolerance_factor, bdl_rule)
    /\ pc' = "done"
    /\ UNCHANGED <<flagVars, callVars, reduceVars, crm_results, dup_results, summary,
                   evalVars>>

NextBlank == ComputeBlankQc

SpecBlank == InitBlank /\ [][NextBlank]_vars

\* the raw blank column of a column name: the cells of the Blank rows
RawBlank(col) ==
    LET blanks == SelectSeq(df.rows, LAMBDA rw : rw.QC_Type = "Blank")
    IN  [i \in DOMAIN blanks |-> blanks[i].cells[col]]

\* the analytes of the metadata whose column is in the table
Mapped == {i \in DOMAIN metadata : ColName(metadata[i]) \in df.columns}

IsFrame(t) == "rows" \in DOMAIN t

\* the records a result table holds for an analyte
RecordsOf(t, meta) ==
    IF IsFrame(t)
    THEN {t.rows[i] : i \in {j \in DOMAIN t.rows :
                                 t.rows[j].Analyte = meta.analyte
                                 /\ t.rows[j].Unit = meta.unit}}
    ELSE {}

AnyCensored(raw) == \E i \in DOMAIN raw : raw[i].kind = "lt"

AllMissing(raw) == \A i \in DOMAIN raw : raw[i].kind = "nan"

\* C6: if any raw value of an analyte's blank column is censored, its
\* Blank_Status is OK, whatever the other values, tolerance_factor and
\* bdl_rule are.
C6_BlankCensoredOK ==
    pc = "done" =>
        \A i \in Mapped :
            AnyCensored(RawBlank(ColName(metadata[i]))) =>
                /\ RecordsOf(blank_results, metadata[i]) # {}
                /\ \A rec \in RecordsOf(blank_results, metadata[i]) :
                       rec.Blank_Status = "OK"

\* a censored value beside a number at or above DL x tolerance_factor
C6_Witness ==
    /\ pc = "done"
    /\ \E i \in Mapped :
         LET raw == RawBlank(ColName(metadata[i]))
         IN  /\ AnyCensored(raw)
             /\ \E j \in DOMAIN raw :
                    raw[j].kind = "num"
                    /\ raw[j].v >= metadata[i].dl * tolerance_factor
             /\ \E rec \in RecordsOf(blank_results, metadata[i]) :
                    rec.Blank_Status = "OK"

\* C7: if every raw value of an analyte's blank column is missing (and there
\* is a blank row), its Blank_Status is NotEvaluated and Average and StDev are
\* empty, for every tolerance_factor and bdl_rule.
C7_BlankAllMissing ==
    pc = "done" =>
        \A i \in Mapped :
            LET raw == RawBlank(ColName(metadata[i]))
            IN  (raw # <<>> /\ AllMissing(raw)) =>
                    /\ RecordsOf(blank_results, metadata[i]) # {}
                    /\ \A rec \in RecordsOf(blank_results, metadata[i]) :
                           /\ rec.Blank_Status = "NotEvaluated"
                           /\ rec.Average = EmptyStr
                           /\ rec.StDev = EmptyStr

\* two blank rows, both missing, under a rule other than the default
C7_Witness ==
    /\ pc = "done"
    /\ bdl_rule = Sym("zero")
    /\ \E i \in Mapped :
         LET raw == RawBlank(ColName(metadata[i]))
         IN  /\ Len(raw) = 2 /\ AllMissing(raw)
             /\ \E rec \in RecordsOf(blank_results, metadata[i]) :
                    rec.Blank_Status = "NotEvaluated"

\* the sum and the count of the numbers of a raw column
RECURSIVE NumSum(_)
NumSum(raw) ==
    IF raw = <<>> THEN 0
    ELSE (IF Head(raw).kind = "num" THEN Head(raw).v ELSE 0) + NumSum(Tail(raw))

NumCount(raw) == Cardinality({i \in DOMAIN raw : raw[i].kind = "num"})

\* C8: for a blank column with at least one non-missing value and no censored
\* value, with avg the mean of its numeric values: the status is OK iff
\* avg < DL, Needs Investigation iff DL <= avg < DL x tolerance_factor, Fail
\* iff avg >= DL x tolerance_factor, and exactly one of the three holds.
C8_BlankBands ==
    pc = "done" =>
        \A i \in Mapped :
            LET raw == RawBlank(ColName(metadata[i]))
                dl == metadata[i].dl
                n == NumCount(raw)
                total == NumSum(raw)
                hasAvg == n > 0
                below == hasAvg /\ total < dl * n
                above == hasAvg /\ total >= dl * tolerance_factor * n
                between == hasAvg /\ ~below /\ ~above
            IN  (~AllMissing(raw) /\ ~AnyCensored(raw)) =>
                    /\ RecordsOf(blank_results, metadata[i]) # {}
                    /\ \A rec \in RecordsOf(blank_results, metadata[i]) :
                           /\ rec.Blank_Status = "OK" <=> below
                           /\ rec.Blank_Status = "Needs Investigation" <=> between
                           /\ rec.Blank_Status = "Fail" <=> above

\* what holds of C8's case when at least one value of the column is a number
C8_BlankBandsParsed ==
    pc = "done" =>
        \A i \in Mapped :
            LET raw == RawBlank(ColName(metadata[i]))
                dl == metadata[i].dl
                n == NumCount(raw)
                total == NumSum(raw)
                below == total < dl * n
                above == total >= dl * tolerance_factor * n
            IN  (n > 0 /\ ~AnyCensored(raw)) =>
                    /\ RecordsOf(blank_results, metadata[i]) # {}
                    /\ \A rec \in RecordsOf(blank_results, metadata[i]) :
                           /\ rec.Blank_Status = "OK" <=> below
                           /\ rec.Blank_Status = "Needs Investigation"
                                  <=> (~below /\ ~above)
                           /\ rec.Blank_Status = "Fail" <=> above

----------------------------------------------------------------------------
(* compute_duplicate_rpd applied to a table holding one Orig/Dup pair *)

MaxDupVal == 24

DupCells ==
    {Missing, Censored, AboveRange, Text} \cup {Number(v) : v \in 0..MaxDupVal}

SampleOrig == <<"A", " ", "O", "r", "i", "g">>
SampleDup == <<"A", " ", "D", "u", "p">>

RpdTolerances == {10, 30}

OrigRow(x) ==
    [Sample |-> SampleOrig, QC_Type |-> "Duplicate_Orig",
     cells |-> [c \in {CuCol} |-> x]]

DupRow(x) ==
    [Sample |-> SampleDup, QC_Type |-> "Duplicate_Dup",
     cells |-> [c \in {CuCol} |-> x]]

InitDup ==
    /\ pc = "start"
    /\ \E o \in DupCells, d \in DupCells :
           df = [columns |-> {CuCol}, rows |-> <<OrigRow(o), DupRow(d)>>]
    /\ metadata \in Metadatas
    /\ rpd_tolerance \in RpdTolerances
    \* the rule configured for the batch; compute_duplicate_rpd has no
    \* parameter for it
    /\ bdl_rule \in BdlRules
    /\ tolerance_factor = 0
    /\ low_tol = 0 /\ high_tol = 0
    /\ IdleFlag /\ IdleCall /\ IdleReduce /\ IdleSummary

ComputeDuplicateRpd ==
    /\ pc = "start"
    /\ dup_results' = compute_duplicate_rpd(df, metadata, rpd_tolerance)
    /\ pc' = "done"
    /\ UNCHANGED <<flagVars, callVars, reduceVars, crm_results, blank_results, summary,
                   evalVars>>

NextDup == ComputeDuplicateRpd

SpecDup == InitDup /\ [][NextDup]_vars

\* the raw cells of the pair in a column
OrigCell(col) == df.rows[1].cells[col]
DupCell(col) == df.rows[2].cells[col]

\* twice the value a cell stands for in the RPD: DL for a censored cell (the
\* proxy DL/2), 2v for a number; -1 when it stands for none
Twice(x, dl) ==
    IF x.kind = "lt" THEN dl ELSE IF x.kind = "num" THEN 2 * x.v ELSE 0 - 1

Abs(n) == IF n >= 0 THEN n ELSE 0 - n

\* |a - b| / ((a + b) / 2) x 100 as a fraction, from twice a and twice b
ExpectedRpd(a2, b2) ==
    IF a2 < 0 \/ b2 < 0 THEN NaN
    ELSE [num |-> 200 * Abs(a2 - b2), den |-> a2 + b2]

\* C9: per analyte and matched pair: either raw cell missing gives
\* NotEvaluated with RPD empty, also when the other side is censored; else
\* both censored gives BothBDL with RPD empty; else exactly one censored gives
\* BDL_Substitution, with RPD = |orig_num - dup_num| / ((orig_num + dup_num)/2)
\* x 100 taken with the proxy on the censored side, whatever the 10xDL rule
\* and the RPD tolerance would say.
C9_DupMissingAndCensored ==
    pc = "done" =>
        \A i \in Mapped :
            LET o == OrigCell(ColName(metadata[i]))
                d == DupCell(ColName(metadata[i]))
                dl == metadata[i].dl
                recs == RecordsOf(dup_results, metadata[i])
                missing == o.kind = "nan" \/ d.kind = "nan"
                bothCens == o.kind = "lt" /\ d.kind = "lt"
                oneCens == (o.kind = "lt") # (d.kind = "lt")
            IN  /\ Cardinality(recs) = 1
                /\ \A rec \in recs :
                     /\ missing =>
                            rec.Status = "NotEvaluated" /\ rec.RPD = EmptyStr
                     /\ ~missing /\ bothCens =>
                            rec.Status = "BothBDL" /\ rec.RPD = EmptyStr
                     /\ ~missing /\ oneCens =>
                            /\ rec.Status = "BDL_Substitution"
                            /\ rec.RPD = ExpectedRpd(Twice(o, dl), Twice(d, dl))

\* a censored cell beside a number above 10 x DL that is further from DL/2
\* than the tolerance allows: BDL_Substitution with a numeric RPD
C9_Witness ==
    /\ pc = "done"
    /\ \E i \in Mapped :
         LET o == OrigCell(ColName(metadata[i]))
             d == DupCell(ColName(metadata[i]))
         IN  /\ o.kind = "lt" /\ d.kind = "num"
             /\ d.v > 10 * metadata[i].dl
             /\ \E rec \in RecordsOf(dup_results, metadata[i]) :
                    /\ rec.Status = "BDL_Substitution"
                    /\ rec.RPD # NaN /\ rec.RPD # EmptyStr
                    /\ rec.RPD.num > rpd_tolerance * rec.RPD.den

\* C10: for a pair of two numbers: both <= 10 x DL gives Below10xDL with RPD
\* empty; both > 10 x DL gives the computed RPD, with status OK when
\* RPD <= rpd_tolerance (boundary included) and Fail_RPD when above.
C10_DupNumericPair ==
    pc = "done" =>
        \A i \in Mapped :
            LET o == OrigCell(ColName(metadata[i]))
                d == DupCell(ColName(metadata[i]))
                dl == metadata[i].dl
                recs == RecordsOf(dup_results, metadata[i])
            IN  (o.kind = "num" /\ d.kind = "num") =>
                    /\ Cardinality(recs) = 1
                    /\ \A rec \in recs :
                         /\ (o.v <= 10 * dl /\ d.v <= 10 * dl) =>
                                rec.Status = "Below10xDL" /\ rec.RPD = EmptyStr
                         /\ (o.v > 10 * dl /\ d.v > 10 * dl) =>
                                /\ rec.RPD = ExpectedRpd(2 * o.v, 2 * d.v)
                                /\ (200 * Abs(o.v - d.v) <= rpd_tolerance * (o.v + d.v))
                                       => rec.Status = "OK"
                                /\ (200 * Abs(o.v - d.v) > rpd_tolerance * (o.v + d.v))
                                       => rec.Status = "Fail_RPD"

\* both values above 10 x DL with the RPD exactly at the tolerance: OK
C10_Witness ==
    /\ pc = "done"
    /\ \E i \in Mapped :
         LET o == OrigCell(ColName(metadata[i]))
             d == DupCell(ColName(metadata[i]))
         IN  /\ o.kind = "num" /\ d.kind = "num"
             /\ o.v > 10 * metadata[i].dl /\ d.v > 10 * metadata[i].dl
             /\ o.v # d.v
             /\ 200 * Abs(o.v - d.v) = rpd_tolerance * (o.v + d.v)
             /\ \E rec \in RecordsOf(dup_results, metadata[i]) :
                    rec.Status = "OK"

----------------------------------------------------------------------------
(* build_qc_summary applied to three result tables *)

MaxRows == 3

CrmColumns ==
    {"CRM", "Analyte", "Unit", "Measured", "Certified", "DL", "Recovery",
     "Bias", "CRM_Status"}

\* a CRM record as compute_crm_recovery emits it: Recovery is
\* measured / certified x 100 and Bias is Recovery - 100 (as fractions) when
\* the status is OK or Fail, the marker "BDL" for Needs Investigation, and
\* empty otherwise
CrmRow(meta, measured, certified, status) ==
    [CRM |-> SampleCrm, Analyte |-> meta.analyte, Unit |-> meta.unit,
     Measured |-> measured, Certified |-> certified, DL |-> meta.dl,
     Recovery |->
         IF status \in {"OK", "Fail"}
         THEN [num |-> 100 * measured.r, den |-> certified.r]
         ELSE IF status = "Needs Investigation" THEN [str |-> "BDL"]
         ELSE EmptyStr,
     Bias |->
         IF status \in {"OK", "Fail"}
         THEN [num |-> 100 * measured.r - 100 * certified.r, den |-> certified.r]
         ELSE IF status = "Needs Investigation" THEN [str |-> "BDL"]
         ELSE EmptyStr,
     CRM_Status |-> status]

SummaryMetas == {CuMeta(1), ZnMeta(1)}

CrmSummaryRows ==
    UNION {{CrmRow(m, Num(55), Num(50), "OK"),
            CrmRow(m, Num(10), Num(50), "Fail"),
            CrmRow(m, Num(0), Num(50), "Needs Investigation"),
            CrmRow(m, NaN, Num(50), "NotEvaluated")} : m \in SummaryMetas}

DupSummaryPairs ==
    {<<Number(20), Number(21)>>, <<Number(12), Number(30)>>,
     <<Censored, Number(20)>>, <<Missing, Number(5)>>,
     <<Number(5), Number(6)>>}

DupSummaryRows ==
    {DupRecord(m, <<"A">>, pr[1], pr[2], 30) :
        m \in SummaryMetas, pr \in DupSummaryPairs}

BlankSummaryColumns ==
    {<<Number(0)>>, <<Number(1)>>, <<Number(5)>>, <<Missing>>}

BlankSummaryRows ==
    {BlankRecord(m, raw, 3, Sym("half")) :
        m \in SummaryMetas, raw \in BlankSummaryColumns}

\* a result table of n rows: None or pd.DataFrame() when n = 0
TablesOf(columns, rowset, n) ==
    IF n = 0 THEN {None, EmptyFrame}
    ELSE {[columns |-> columns, rows |-> rs] : rs \in [1..n -> rowset]}

\* the Blank table holds one record per analyte
DistinctKeys(t) ==
    IF IsEmptyFrame(t) THEN TRUE
    ELSE \A i, j \in DOMAIN t.rows :
             KeyOf(t.rows[i]) = KeyOf(t.rows[j]) => i = j

InitSummary ==
    /\ pc = "start"
    /\ \E a \in 0..MaxRows : \E b \in 0..(MaxRows - a) :
         \E c \in 0..(MaxRows - a - b) :
           /\ crm_results \in TablesOf(CrmColumns, CrmSummaryRows, a)
           /\ dup_results \in TablesOf(DupColumns, DupSummaryRows, b)
           /\ blank_results \in TablesOf(BlankColumns, BlankSummaryRows, c)
    /\ DistinctKeys(blank_results)
    /\ summary = None
    /\ IdleFlag /\ IdleCall /\ IdleReduce /\ IdleEval

BuildQcSummary ==
    /\ pc = "start"
    /\ summary' = build_qc_summary(crm_results, dup_results, blank_results)
    /\ pc' = "done"
    /\ UNCHANGED <<flagVars, callVars, reduceVars, crm_results, dup_results,
                   blank_results, evalVars>>

NextSummary == BuildQcSummary

SpecSummary == InitSummary /\ [][NextSummary]_vars

TableKeys(t) == IF IsEmptyFrame(t) THEN {} ELSE KeysOf(t.rows)

AllKeys ==
    TableKeys(crm_results) \cup TableKeys(dup_results)
        \cup TableKeys(blank_results)

RowsWithKey(t, key) == {i \in DOMAIN t.rows : KeyOf(t.rows[i]) = key}

\* C4: every (Analyte, Unit) key that occurs in at least one of the three
\* result tables appears in exactly one row of the summary that
\* build_qc_summary returns, also a key with Blank or Duplicate records but
\* no CRM record.
C4_SummaryOuterUnion ==
    (pc = "done" /\ IsFrame(summary)) =>
        \A key \in AllKeys : Cardinality(RowsWithKey(summary, key)) = 1

\* what the left joins keep: exactly the keys of the CRM table, once each
C4_SummaryKeysAreCrmKeys ==
    (pc = "done" /\ IsFrame(summary)) =>
        /\ \A key \in TableKeys(crm_results) :
               Cardinality(RowsWithKey(summary, key)) = 1
        /\ KeysOf(summary.rows) = TableKeys(crm_results)

\* C5: when one module's table is empty or None while another is not,
\* build_qc_summary returns a summary without raising, in which the empty
\* module's status is empty or absent in every row.
C5_SummaryEmptyModule ==
    LET crmE == IsEmptyFrame(crm_results)
        dupE == IsEmptyFrame(dup_results)
        blankE == IsEmptyFrame(blank_results)
    IN  (pc = "done" /\ (crmE \/ dupE \/ blankE) /\ ~(crmE /\ dupE /\ blankE)) =>
            /\ IsFrame(summary)
            /\ \A i \in DOMAIN summary.rows :
                 /\ crmE => RowGet(summary.rows[i], "CRM_FinalStatus")
                                \in {NaNStatus, NoneStatus}
                 /\ dupE => RowGet(summary.rows[i], "Duplicate_Status")
                                \in {NaNStatus, NoneStatus}
                 /\ blankE => RowGet(summary.rows[i], "Blank_Status")
                                \in {NaNStatus, NoneStatus}

\* what the code does instead: any empty module makes build_qc_summary raise
C5_EmptyModuleRaises ==
    pc = "done" =>
        ((IsEmptyFrame(crm_results) \/ IsEmptyFrame(dup_results)
            \/ IsEmptyFrame(blank_results))
         <=> summary = Raised("KeyError"))

----------------------------------------------------------------------------
(* compute_crm_recovery on one Meas/Cert pair *)

MaxCrmVal == 60

CrmCells ==
    {Missing, Censored, AboveRange, Text} \cup {Number(v) : v \in 0..MaxCrmVal}

SampleMeas == <<"A", " ", "M", "e", "a", "s">>
SampleCert == <<"A", " ", "C", "e", "r", "t">>

\* <<low_tol, high_tol>>; the first is the default of the signature
CrmTolerances == {<<80, 120>>, <<75, 125>>}

MeasRow(x) ==
    [Sample |-> SampleMeas, QC_Type |-> "CRM", cells |-> [c \in {CuCol} |-> x]]

CertRow(x) ==
    [Sample |-> SampleCert, QC_Type |-> "CRM", cells |-> [c \in {CuCol} |-> x]]

InitCrm ==
    /\ pc = "start"
    /\ \E m \in CrmCells, c \in CrmCells :
           df = [columns |-> {CuCol}, rows |-> <<MeasRow(m), CertRow(c)>>]
    /\ metadata \in Metadatas
    /\ \E t \in CrmTolerances : low_tol = t[1] /\ high_tol = t[2]
    /\ tolerance_factor = 0 /\ bdl_rule = None /\ rpd_tolerance = 0
    /\ IdleFlag /\ IdleCall /\ IdleReduce /\ IdleSummary

ComputeCrmRecovery ==
    /\ pc = "start"
    /\ crm_results' = compute_crm_recovery(df, metadata, low_tol, high_tol)
    /\ pc' = "done"
    /\ UNCHANGED <<flagVars, callVars, reduceVars, dup_results, blank_results, summary,
                   evalVars>>

NextCrm == ComputeCrmRecovery

SpecCrm == InitCrm /\ [][NextCrm]_vars

MeasCell(col) == df.rows[1].cells[col]
CertCell(col) == df.rows[2].cells[col]

\* a cell that holds no number
NoNumber(x) == x.kind # "num"

\* a Recovery or Bias that is a number
IsNumeric(x) == "num" \in DOMAIN x

\* rec = a / b, for a fraction rec and integers a, b > 0
FracEq(rec, a, b) == IsNumeric(rec) /\ rec.num * b = a * rec.den

\* C11: the status of a Meas/Cert pair is decided by the first rule that
\* matches, in this order: both cells missing -> NotApplicable; one missing ->
\* NotEvaluated; certified < DL -> NotApplicable; certified < 10*DL ->
\* Below10xDL; measured < DL -> Needs Investigation with Recovery and Bias
\* "BDL"; otherwise Recovery is a number and the status is OK or Fail.  Recovery
\* and Bias are empty under the first four rules, and every mapped analyte of
\* the pair has exactly one record.
C11_CrmDecisionTree ==
    pc = "done" =>
        /\ IsFrame(crm_results)
        /\ Len(crm_results.rows) = Cardinality(Mapped)
        /\ \A i \in Mapped :
             LET meta == metadata[i]
                 m == MeasCell(ColName(meta))
                 c == CertCell(ColName(meta))
                 recs == RecordsOf(crm_results, meta)
             IN  /\ Cardinality(recs) = 1
                 /\ \A r \in recs :
                      /\ IF NoNumber(m) /\ NoNumber(c)
                         THEN r.CRM_Status = "NotApplicable"
                                /\ r.Recovery = EmptyStr /\ r.Bias = EmptyStr
                         ELSE IF NoNumber(m) \/ NoNumber(c)
                         THEN r.CRM_Status = "NotEvaluated"
                                /\ r.Recovery = EmptyStr /\ r.Bias = EmptyStr
                         ELSE IF c.v < meta.dl
                         THEN r.CRM_Status = "NotApplicable"
                                /\ r.Recovery = EmptyStr /\ r.Bias = EmptyStr
                         ELSE IF c.v < 10 * meta.dl
                         THEN r.CRM_Status = "Below10xDL"
                                /\ r.Recovery = EmptyStr /\ r.Bias = EmptyStr
                         ELSE IF m.v < meta.dl
                         THEN r.CRM_Status = "Needs Investigation"
                                /\ r.Recovery = BDLMarker /\ r.Bias = BDLMarker
                         ELSE r.CRM_Status \in {"OK", "Fail"}
                                /\ IsNumeric(r.Recovery) /\ IsNumeric(r.Bias)
                      /\ IsNumeric(r.Recovery) =>
                            /\ ~NoNumber(m) /\ ~NoNumber(c)
                            /\ c.v >= 10 * meta.dl /\ m.v >= meta.dl

\* a measured value below DL beside a certified value in [DL, 10*DL): the
\* fourth rule wins over the fifth
C11_Witness ==
    /\ pc = "done"
    /\ \E i \in Mapped :
         LET meta == metadata[i]
             m == MeasCell(ColName(meta))
             c == CertCell(ColName(meta))
         IN  /\ ~NoNumber(m) /\ ~NoNumber(c)
             /\ m.v < meta.dl /\ c.v >= meta.dl /\ c.v < 10 * meta.dl
             /\ \E r \in RecordsOf(crm_results, meta) :
                    r.CRM_Status = "Below10xDL"

\* the record of the one pair for an analyte
PairRecords(i) == RecordsOf(crm_results, metadata[i])

Empty(r) == r.Recovery = EmptyStr /\ r.Bias = EmptyStr

\* C12 as stated: a certified value below DL gives NotApplicable with empty
\* Recovery and Bias whatever the measured cell holds.
C12_CertBelowDLAnyMeasured ==
    pc = "done" =>
        \A i \in Mapped :
            LET c == CertCell(ColName(metadata[i]))
            IN  (~NoNumber(c) /\ c.v < metadata[i].dl) =>
                    \A r \in PairRecords(i) :
                        r.CRM_Status = "NotApplicable" /\ Empty(r)

\* C12, amended: a certified value below DL gives NotApplicable with empty
\* Recovery and Bias for every measured number; beside a measured cell that
\* holds no number (missing, censored, unparseable) the pair is NotEvaluated,
\* Recovery and Bias still empty.
C12_CertBelowDLNumericMeasured ==
    pc = "done" =>
        \A i \in Mapped :
            LET c == CertCell(ColName(metadata[i]))
                m == MeasCell(ColName(metadata[i]))
            IN  (~NoNumber(c) /\ c.v < metadata[i].dl) =>
                    /\ PairRecords(i) # {}
                    /\ \A r \in PairRecords(i) :
                         /\ Empty(r)
                         /\ r.CRM_Status =
                              IF NoNumber(m) THEN "NotEvaluated"
                              ELSE "NotApplicable"

\* certified below DL beside a measured number far above it
C12_Witness ==
    /\ pc = "done"
    /\ \E i \in Mapped :
         LET c == CertCell(ColName(metadata[i]))
             m == MeasCell(ColName(metadata[i]))
         IN  /\ ~NoNumber(c) /\ c.v < metadata[i].dl
             /\ ~NoNumber(m) /\ m.v >= 10 * metadata[i].dl
             /\ \E r \in PairRecords(i) : r.CRM_Status = "NotApplicable"

\* C13: for a pair that reaches the recovery step (both numbers, certified >=
\* 10*DL, measured >= DL) Recovery = measured / certified * 100, Bias =
\* Recovery - 100, and the status is OK iff low_tol <= Recovery <= high_tol and
\* Fail otherwise; certified 50, DL 1, measured 55 under the default band gives
\* Recovery 110, Bias 10, OK.
C13_CrmRecoveryBand ==
    pc = "done" =>
        \A i \in Mapped :
            LET dl == metadata[i].dl
                c == CertCell(ColName(metadata[i]))
                m == MeasCell(ColName(metadata[i]))
            IN  (~NoNumber(c) /\ ~NoNumber(m) /\ c.v >= 10 * dl /\ m.v >= dl) =>
                    /\ PairRecords(i) # {}
                    /\ \A r \in PairRecords(i) :
                         /\ FracEq(r.Recovery, 100 * m.v, c.v)
                         /\ FracEq(r.Bias, 100 * m.v - 100 * c.v, c.v)
                         /\ r.CRM_Status =
                              IF low_tol * c.v <= 100 * m.v
                                    /\ 100 * m.v <= high_tol * c.v
                              THEN "OK" ELSE "Fail"
                         /\ (dl = 1 /\ c.v = 50 /\ m.v = 55
                                /\ low_tol = 80 /\ high_tol = 120) =>
                                /\ FracEq(r.Recovery, 110, 1)
                                /\ FracEq(r.Bias, 10, 1)
                                /\ r.CRM_Status = "OK"

\* a Recovery exactly on the upper bound of the band, reported OK
C13_Witness ==
    /\ pc = "done"
    /\ \E i \in Mapped :
         LET c == CertCell(ColName(metadata[i]))
             m == MeasCell(ColName(metadata[i]))
         IN  /\ ~NoNumber(c) /\ ~NoNumber(m) /\ c.v >= 10 * metadata[i].dl
             /\ 100 * m.v = high_tol * c.v
             /\ \E r \in PairRecords(i) :
                    r.CRM_Status = "OK" /\ IsNumeric(r.Recovery)

IsCensored(x) == x.kind \in {"lt", "gt"}

NeverEvaluated(r) ==
    /\ ~IsNumeric(r.Recovery) /\ ~IsNumeric(r.Bias)
    /\ r.CRM_Status \notin {"OK", "Fail", "Needs Investigation"}

\* C15 as stated: a censored cell on exactly one side of the pair gives
\* NotEvaluated, censored cells on both sides give NotApplicable, and neither
\* gets a numeric Recovery, OK, Fail or Needs Investigation.
C15_CensoredOneSideNotEvaluated ==
    pc = "done" =>
        \A i \in Mapped :
            LET c == CertCell(ColName(metadata[i]))
                m == MeasCell(ColName(metadata[i]))
            IN  (IsCensored(m) \/ IsCensored(c)) =>
                    \A r \in PairRecords(i) :
                        /\ NeverEvaluated(r)
                        /\ r.CRM_Status =
                             IF IsCensored(m) /\ IsCensored(c)
                             THEN "NotApplicable" ELSE "NotEvaluated"

\* C15, amended: a censored cell counts as missing and is never substituted: a
\* censored cell beside a number gives NotEvaluated, a censored cell beside a
\* cell that holds no number (censored, missing or unparseable) gives
\* NotApplicable, and neither gets a numeric Recovery, OK, Fail or Needs
\* Investigation.
C15_CensoredAsMissing ==
    pc = "done" =>
        \A i \in Mapped :
            LET c == CertCell(ColName(metadata[i]))
                m == MeasCell(ColName(metadata[i]))
            IN  (IsCensored(m) \/ IsCensored(c)) =>
                    /\ PairRecords(i) # {}
                    /\ \A r \in PairRecords(i) :
                         /\ NeverEvaluated(r)
                         /\ r.Measured = (IF NoNumber(m) THEN NaN ELSE Num(m.v))
                         /\ r.Certified = (IF NoNumber(c) THEN NaN ELSE Num(c.v))
                         /\ r.CRM_Status =
                              IF NoNumber(m) /\ NoNumber(c)
                              THEN "NotApplicable" ELSE "NotEvaluated"

\* a measured "< x" beside a certified number at or above 10*DL
C15_Witness ==
    /\ pc = "done"
    /\ \E i \in Mapped :
         LET c == CertCell(ColName(metadata[i]))
             m == MeasCell(ColName(metadata[i]))
         IN  /\ m.kind = "lt" /\ ~NoNumber(c) /\ c.v >= 10 * metadata[i].dl
             /\ \E r \in PairRecords(i) : r.CRM_Status = "NotEvaluated"

----------------------------------------------------------------------------
(* compute_crm_recovery on several Meas and Cert rows *)

MaxCrmRows == 4

\* the samples of two CRM materials, and a blank
CrmSamples ==
    {<<SampleMeas, "CRM">>, <<SampleCert, "CRM">>,
     <<<<"B", " ", "M", "e", "a", "s">>, "CRM">>,
     <<<<"B", " ", "C", "e", "r", "t">>, "CRM">>,
     <<SampleBlank, "Blank">>}

\* row i holds the number i, so that a record tells the rows it was built from
CrmBatches ==
    UNION {[1..n -> CrmSamples] : n \in 0..MaxCrmRows}

BatchRow(sample, i) ==
    [Sample |-> sample[1], QC_Type |-> sample[2],
     cells |-> [c \in {CuCol} |-> Number(i)]]

InitCrmPairing ==
    /\ pc = "start"
    /\ \E b \in CrmBatches :
           df = [columns |-> {CuCol},
                 rows |-> [i \in DOMAIN b |-> BatchRow(b[i], i)]]
    /\ metadata \in Metadatas
    /\ low_tol = 80 /\ high_tol = 120
    /\ tolerance_factor = 0 /\ bdl_rule = None /\ rpd_tolerance = 0
    /\ IdleFlag /\ IdleCall /\ IdleReduce /\ IdleSummary

NextCrmPairing == ComputeCrmRecovery

SpecCrmPairing == InitCrmPairing /\ [][NextCrmPairing]_vars

\* the material and the role of row i, read off its sample name
MaterialOf(i) == df.rows[i].Sample[1]
IsMeas(i) == df.rows[i].QC_Type = "CRM" /\ df.rows[i].Sample[3] = "M"
IsCert(i) == df.rows[i].QC_Type = "CRM" /\ df.rows[i].Sample[3] = "C"

MeasOf(b) == {i \in DOMAIN df.rows : IsMeas(i) /\ MaterialOf(i) = b}
CertOf(b) == {i \in DOMAIN df.rows : IsCert(i) /\ MaterialOf(i) = b}

\* how many rows of the set come before row i
RankIn(S, i) == Cardinality({j \in S : j < i})

\* the i-th Meas row of a material with the i-th Cert row of the same material
PositionalPairs ==
    {p \in (DOMAIN df.rows) \X (DOMAIN df.rows) :
        /\ IsMeas(p[1]) /\ IsCert(p[2])
        /\ MaterialOf(p[1]) = MaterialOf(p[2])
        /\ RankIn(MeasOf(MaterialOf(p[1])), p[1])
             = RankIn(CertOf(MaterialOf(p[2])), p[2])}

Min(a, b) == IF a <= b THEN a ELSE b

\* the positions of the records of an analyte in the result table
RecordPositions(t, meta) ==
    {j \in DOMAIN t.rows :
        t.rows[j].Analyte = meta.analyte /\ t.rows[j].Unit = meta.unit}

\* C14: CRM pairing is positional within a base name: the records of an
\* analyte are exactly the pairs of the i-th Meas row with the i-th Cert row of
\* the same base name, each once; every Meas row and every Cert row is in at
\* most one record, and a base name with m Meas rows and n Cert rows has
\* min(m, n) records.
C14_CrmPositionalPairing ==
    pc = "done" =>
        /\ IsFrame(crm_results)
        /\ \A i \in Mapped :
             LET meta == metadata[i]
                 pos == RecordPositions(crm_results, meta)
                 rec(j) == crm_results.rows[j]
             IN  /\ {<<rec(j).Measured, rec(j).Certified, rec(j).CRM>> : j \in pos}
                       = {<<Num(p[1]), Num(p[2]), <<MaterialOf(p[1])>> >> :
                             p \in PositionalPairs}
                 /\ Cardinality(pos) = Cardinality(PositionalPairs)
                 /\ \A k \in DOMAIN df.rows :
                        /\ Cardinality({j \in pos : rec(j).Measured = Num(k)}) <= 1
                        /\ Cardinality({j \in pos : rec(j).Certified = Num(k)}) <= 1
                 /\ \A b \in {"A", "B"} :
                        Cardinality({j \in pos : rec(j).CRM = <<b>>})
                            = Min(Cardinality(MeasOf(b)), Cardinality(CertOf(b)))

\* a material run twice with one certificate row: one record, not two
C14_Witness ==
    /\ pc = "done"
    /\ Cardinality(MeasOf("A")) = 2 /\ Cardinality(CertOf("A")) = 1
    /\ \E i \in Mapped :
         Cardinality({j \in RecordPositions(crm_results, metadata[i]) :
                         crm_results.rows[j].CRM = <<"A">>}) = 1

----------------------------------------------------------------------------
(* the BDL rule across the evaluators *)

\* the rules the batch may be configured with
ClaimedRules ==
    {Sym("half"), Sym("sqrt2"), Sym("zero"), Sym("dl"), [kind |-> "num", v |-> 1]}

\* C16: for every rule in {half, sqrt2, zero, dl, numeric override} the proxy
\* the Duplicate Evaluator uses for a censored cell (Orig_num, Dup_num) is the
\* proxy the Blank Evaluator uses for the same DL and the configured rule.
C16_UniformBdlRule ==
    (pc = "done" /\ bdl_rule \in ClaimedRules) =>
        \A i \in Mapped :
            LET meta == metadata[i]
                o == OrigCell(ColName(meta))
                d == DupCell(ColName(meta))
            IN  \A r \in RecordsOf(dup_results, meta) :
                    /\ o.kind = "lt" =>
                          r.Orig_num = Blank_to_numeric_with_bdl(o, meta.dl, bdl_rule)
                    /\ d.kind = "lt" =>
                          r.Dup_num = Blank_to_numeric_with_bdl(d, meta.dl, bdl_rule)

\* under the rule half the two evaluators do agree
C16_HalfRuleAgrees ==
    (pc = "done" /\ bdl_rule = Sym("half")) =>
        \A i \in Mapped :
            LET meta == metadata[i]
                o == OrigCell(ColName(meta))
            IN  \A r \in RecordsOf(dup_results, meta) :
                    o.kind = "lt" =>
                        r.Orig_num = Blank_to_numeric_with_bdl(o, meta.dl, bdl_rule)

----------------------------------------------------------------------------
(* the three evaluators on one batch, any detection limit *)

\* detection limits as configured, the non-positive ones included
ConfigDLs == {0 - 1, 0, 1}

EvalCells ==
    {Missing, Censored, AboveRange, Text, Number(0), Number(1), Number(20)}

\* a blank, a duplicate pair and a CRM pair
EvalBatch(b, o, d, m, c) ==
    <<[Sample |-> SampleBlank, QC_Type |-> "Blank", cells |-> [k \in {CuCol} |-> b]],
      OrigRow(o), DupRow(d), MeasRow(m), CertRow(c)>>

InitEvaluators ==
    /\ pc = "start"
    /\ \E b \in EvalCells, o \in EvalCells, d \in EvalCells,
          m \in EvalCells, c \in EvalCells :
           df = [columns |-> {CuCol}, rows |-> EvalBatch(b, o, d, m, c)]
    /\ \E dl \in ConfigDLs : metadata = <<CuMeta(dl)>>
    /\ tolerance_factor = 2 /\ bdl_rule = Sym("half")
    /\ rpd_tolerance = 30 /\ low_tol = 80 /\ high_tol = 120
    /\ IdleFlag /\ IdleCall /\ IdleReduce /\ IdleSummary

\* the evaluators are independent: each reads only df and metadata
NextEvaluators ==
    \/ ComputeBlankQc
    \/ ComputeDuplicateRpd
    \/ ComputeCrmRecovery

SpecEvaluators == InitEvaluators /\ [][NextEvaluators]_vars

\* the result tables of the evaluators that have run
Evaluated == {t \in {blank_results, dup_results, crm_results} : t # None}

\* C17: with a detection limit DL <= 0 in the analyte spec, compute_blank_qc,
\* compute_duplicate_rpd and compute_crm_recovery fail with an error and emit
\* no record.
C17_NonPositiveDLRejected ==
    (pc = "done" /\ \E i \in DOMAIN metadata : metadata[i].dl <= 0) =>
        \A t \in Evaluated : HasRaised(t)

\* what the evaluators do instead: each returns a table with a record of
\* the analyte
C17_NonPositiveDLEvaluated ==
    (pc = "done" /\ \E i \in DOMAIN metadata : metadata[i].dl <= 0) =>
        \A t \in Evaluated :
            IsFrame(t) /\ RecordsOf(t, metadata[1]) # {}

----------------------------------------------------------------------------
(* compute_blank_qc: unparseable cells, and analytes without blank rows *)

\* a cell that is not censored and is no number: free text, or "> x"
Unparseable(x) == x.kind \in {"text", "gt"}

\* C18: a blank column whose cells are all missing or unparseable gets
\* Blank_Status NotEvaluated, as a column of missing cells does, and no
\* exception is raised.
C18_BlankParseFailureIsMissing ==
    pc = "done" =>
        \A i \in Mapped :
            LET raw == RawBlank(ColName(metadata[i]))
            IN  (raw # <<>>
                   /\ \A k \in DOMAIN raw : raw[k].kind = "nan" \/ Unparseable(raw[k])) =>
                    /\ ~HasRaised(blank_results)
                    /\ RecordsOf(blank_results, metadata[i]) # {}
                    /\ \A rec \in RecordsOf(blank_results, metadata[i]) :
                           rec.Blank_Status = "NotEvaluated"

\* what the code does with such a column when one cell is unparseable: the
\* average is NaN and the status is Fail
C18_UnparseableFails ==
    pc = "done" =>
        \A i \in Mapped :
            LET raw == RawBlank(ColName(metadata[i]))
            IN  (raw # <<>>
                   /\ (\A k \in DOMAIN raw : raw[k].kind = "nan" \/ Unparseable(raw[k]))
                   /\ \E k \in DOMAIN raw : Unparseable(raw[k])) =>
                    /\ RecordsOf(blank_results, metadata[i]) # {}
                    /\ \A rec \in RecordsOf(blank_results, metadata[i]) :
                           rec.Blank_Status = "Fail" /\ rec.Average = NaN

\* C19: every analyte with a spec and a mapped column has exactly one row in
\* the Blank result table, also when the batch holds no Blank row.
C19_OneBlankRowPerAnalyte ==
    pc = "done" =>
        \A i \in Mapped :
            /\ IsFrame(blank_results)
            /\ Cardinality(RecordPositions(blank_results, metadata[i])) = 1

\* with at least one Blank row in the batch every mapped analyte has its row
C19_OneBlankRowWhenBlanks ==
    (pc = "done" /\ \E k \in DOMAIN df.rows : df.rows[k].QC_Type = "Blank"
        /\ Mapped # {}) =>
        /\ IsFrame(blank_results)
        /\ \A i \in Mapped :
               Cardinality(RecordPositions(blank_results, metadata[i])) = 1

----------------------------------------------------------------------------
(* compute_duplicate_rpd on several Orig and Dup rows *)

MaxDupRows == 4

\* the samples of two duplicated materials, and a blank
DupSamples ==
    {<<SampleOrig, "Duplicate_Orig">>, <<SampleDup, "Duplicate_Dup">>,
     <<<<"B", " ", "O", "r", "i", "g">>, "Duplicate_Orig">>,
     <<<<"B", " ", "D", "u", "p">>, "Duplicate_Dup">>,
     <<SampleBlank, "Blank">>}

DupBatches ==
    UNION {[1..n -> DupSamples] : n \in 0..MaxDupRows}

InitDupJoin ==
    /\ pc = "start"
    /\ \E b \in DupBatches :
           df = [columns |-> {CuCol},
                 rows |-> [i \in DOMAIN b |-> BatchRow(b[i], i)]]
    /\ metadata \in Metadatas
    /\ rpd_tolerance = 30
    /\ bdl_rule = Sym("half")
    /\ tolerance_factor = 0 /\ low_tol = 0 /\ high_tol = 0
    /\ IdleFlag /\ IdleCall /\ IdleReduce /\ IdleSummary

NextDupJoin == ComputeDuplicateRpd

SpecDupJoin == InitDupJoin /\ [][NextDupJoin]_vars

IsOrig(i) == df.rows[i].QC_Type = "Duplicate_Orig"
IsDup(i) == df.rows[i].QC_Type = "Duplicate_Dup"

\* an Orig row with a Dup row of the same material
BasePairs ==
    {p \in (DOMAIN df.rows) \X (DOMAIN df.rows) :
        IsOrig(p[1]) /\ IsDup(p[2]) /\ MaterialOf(p[1]) = MaterialOf(p[2])}

\* C20: the duplicate records of an analyte are exactly the pairs of an Orig
\* row and a Dup row with the same base key, each pair once; a row without a
\* counterpart of its base key is in no record, and no error is raised.
C20_DupJoinOnBase ==
    pc = "done" =>
        /\ IsFrame(dup_results)
        /\ \A i \in Mapped :
             LET meta == metadata[i]
                 pos == RecordPositions(dup_results, meta)
                 rec(j) == dup_results.rows[j]
             IN  /\ {<<rec(j).Orig_num, rec(j).Dup_num, rec(j).Sample>> : j \in pos}
                       = {<<Num(p[1]), Num(p[2]), <<MaterialOf(p[1])>> >> :
                             p \in BasePairs}
                 /\ Cardinality(pos) = Cardinality(BasePairs)
                 /\ \A k \in DOMAIN df.rows :
                        (~\E p \in BasePairs : k \in {p[1], p[2]}) =>
                            \A j \in pos :
                                rec(j).Orig_num # Num(k) /\ rec(j).Dup_num # Num(k)

\* a matched pair of one material beside an Orig row of another material that
\* has no Dup row: one record
C20_Witness ==
    /\ pc = "done"
    /\ Cardinality(BasePairs) = 1
    /\ \E k \in DOMAIN df.rows :
           IsOrig(k) /\ ~\E p \in BasePairs : p[1] = k
    /\ \E i \in Mapped :
           Cardinality(RecordPositions(dup_results, metadata[i])) = 1

----------------------------------------------------------------------------
(* compute_duplicate_rpd: symmetry and the Below10xDL case *)

\* the table with the cells of the Orig and the Dup row exchanged
Swapped(d) ==
    [d EXCEPT !.rows[1].cells = d.rows[2].cells,
              !.rows[2].cells = d.rows[1].cells]

\* C21: exchanging the Orig and the Dup cell of a pair leaves the RPD and the
\* Status of its record unchanged, for every pair of cells and every DL.
C21_RpdSymmetric ==
    pc = "done" =>
        LET other == compute_duplicate_rpd(Swapped(df), metadata, rpd_tolerance)
        IN  /\ IsFrame(dup_results) /\ IsFrame(other)
            /\ Len(other.rows) = Len(dup_results.rows)
            /\ \A j \in DOMAIN dup_results.rows :
                   /\ other.rows[j].RPD = dup_results.rows[j].RPD
                   /\ other.rows[j].Status = dup_results.rows[j].Status
                   /\ other.rows[j].Orig = dup_results.rows[j].Dup
                   /\ other.rows[j].Dup = dup_results.rows[j].Orig

\* a pair of different numbers, one above 10*DL and one not
C21_Witness ==
    /\ pc = "done"
    /\ \E i \in Mapped :
         LET o == OrigCell(ColName(metadata[i]))
             d == DupCell(ColName(metadata[i]))
         IN  /\ o.kind = "num" /\ d.kind = "num"
             /\ o.v > 10 * metadata[i].dl /\ d.v <= 10 * metadata[i].dl
             /\ \E r \in RecordsOf(dup_results, metadata[i]) :
                    r.Status = "Below10xDL"

\* C27: a pair gets Below10xDL only if both cells are present, uncensored,
\* parse as numbers and are both <= 10*DL.
C27_Below10xOnlyBothLow ==
    pc = "done" =>
        \A i \in Mapped :
            LET o == OrigCell(ColName(metadata[i]))
                d == DupCell(ColName(metadata[i]))
            IN  \A r \in RecordsOf(dup_results, metadata[i]) :
                    r.Status = "Below10xDL" =>
                        /\ o.kind = "num" /\ d.kind = "num"
                        /\ o.v <= 10 * metadata[i].dl
                        /\ d.v <= 10 * metadata[i].dl

\* what the code's mask gives: Below10xDL for every pair of present,
\* uncensored cells that are not both numbers above 10*DL
C27_Below10xUnlessBothAbove ==
    pc = "done" =>
        \A i \in Mapped :
            LET o == OrigCell(ColName(metadata[i]))
                d == DupCell(ColName(metadata[i]))
                high(x) == x.kind = "num" /\ x.v > 10 * metadata[i].dl
            IN  \A r \in RecordsOf(dup_results, metadata[i]) :
                    r.Status = "Below10xDL" <=>
                        /\ o.kind \notin {"nan", "lt"} /\ d.kind \notin {"nan", "lt"}
                        /\ ~(high(o) /\ high(d))

----------------------------------------------------------------------------
(* blank_wide.py: bdl_substitution and to_numeric_with_bdl on their own *)

MaxSubDL == 3

\* the factors DL is scaled by
Scales == {2, 3}

InitSubstitute ==
    /\ pc = "start"
    /\ \E x \in BlankCells, d \in 1..MaxSubDL, k \in Scales :
           call_args = [x |-> x, dl |-> d, k |-> k]
    /\ bdl_rule \in BdlRules
    /\ call_ret = None
    /\ df = None /\ metadata = <<>> /\ tolerance_factor = 0
    /\ rpd_tolerance = 0 /\ low_tol = 0 /\ high_tol = 0
    /\ IdleFlag /\ IdleReduce /\ IdleSummary

\* bdl_substitution(dl, rule) and bdl_substitution(k * dl, rule)
BdlSubstitution ==
    /\ pc = "start"
    /\ call_ret' =
           [at_dl |-> Blank_bdl_substitution(call_args.dl, bdl_rule),
            at_kdl |-> Blank_bdl_substitution(call_args.k * call_args.dl, bdl_rule)]
    /\ pc' = "substituted"
    /\ UNCHANGED <<call_args, flagVars, reduceVars, summaryVars, evalVars>>

\* to_numeric_with_bdl(x, dl, rule)
ToNumericWithBdl ==
    /\ pc = "start"
    /\ call_ret' = Blank_to_numeric_with_bdl(call_args.x, call_args.dl, bdl_rule)
    /\ pc' = "converted"
    /\ UNCHANGED <<call_args, flagVars, reduceVars, summaryVars, evalVars>>

NextSubstitute == BdlSubstitution \/ ToNumericWithBdl

SpecSubstitute == InitSubstitute /\ [][NextSubstitute]_vars

\* the proxy a * k, for a proxy a and an integer k
Scaled(a, k) == [r |-> a.r * k, s |-> a.s * k]

\* the rule named, whatever the letter case
RuleIs(name) ==
    /\ bdl_rule.kind = "sym"
    /\ bdl_rule.name \in
         CASE name = "half" -> {"half", "HALF"}
           [] name = "sqrt2" -> {"sqrt2", "SQRT2"}
           [] name = "zero" -> {"zero", "ZERO"}
           [] name = "dl" -> {"dl", "DL"}

Recognized == RuleIs("half") \/ RuleIs("sqrt2") \/ RuleIs("zero") \/ RuleIs("dl")

\* C22: bdl_substitution(dl, rule) is dl/2 for half, dl/sqrt(2) for sqrt2, 0 for
\* zero, dl for dl, the value itself for a numeric rule, and dl/2 for any other
\* symbolic rule, names compared without regard to case; for half, sqrt2 and dl
\* scaling DL by k scales the result by k, for zero the result stays 0.
\* to_numeric_with_bdl gives NaN for a missing cell, the substitution for a
\* censored cell, the number for a number, and NaN for anything else.
C22_SubstituteAndToNumeric ==
    /\ pc = "substituted" =>
         LET d == call_args.dl
             got == call_ret.at_dl
         IN  /\ RuleIs("half") => got = [r |-> d, s |-> 0]
             /\ RuleIs("sqrt2") => got = [r |-> 0, s |-> d]
             /\ RuleIs("zero") => got = Num(0) /\ call_ret.at_kdl = Num(0)
             /\ RuleIs("dl") => got = Num(d)
             /\ bdl_rule.kind = "num" => got = Num(bdl_rule.v)
             /\ (bdl_rule.kind = "sym" /\ ~Recognized) => got = [r |-> d, s |-> 0]
             /\ (RuleIs("half") \/ RuleIs("sqrt2") \/ RuleIs("dl")) =>
                    call_ret.at_kdl = Scaled(got, call_args.k)
    /\ pc = "converted" =>
         LET x == call_args.x
         IN  /\ x.kind = "nan" => call_ret = NaN
             /\ x.kind = "lt" =>
                    call_ret = Blank_bdl_substitution(call_args.dl, bdl_rule)
             /\ x.kind = "num" => call_ret = Num(x.v)
             /\ x.kind \in {"text", "gt"} => call_ret = NaN

\* dl / sqrt(2) returned for a rule spelt in upper case
C22_Witness ==
    /\ pc = "substituted"
    /\ bdl_rule = Sym("SQRT2")
    /\ call_args.dl = 2
    /\ call_ret.at_dl = [r |-> 0, s |-> 2]

----------------------------------------------------------------------------
(* the full pipeline: the three evaluators, then build_qc_summary, run twice *)

\* blank_wide.py line 67: df = df.copy(); the caller's table is as it was
Blank_df_after(d) == d

Dup_df_after_inplace(d) ==
    [d EXCEPT !.columns = @ \cup {<<"D", "U", "P", "_", "B", "a", "s", "e">>}]

\* duplicate_wide.py lines 44-45: df = df.copy(), DUP_Base is added to the copy;
\* the caller's table is as it was
Dup_df_after(d) == d

\* crm_wide.py lines 12-15: df = df.copy(), CRM_Base is added to the copy
Crm_df_after(d) == d

\* qc_summary.py lines 61-63: the three tables are copied, the columns added
\* while reducing go to the copies
Summary_arg_after(t) == t

PipeCells == {Missing, Censored, Number(1), Number(20)}

PipeMetadatas == {<<CuMeta(1)>>, <<ZnMeta(1), CuMeta(1)>>, <<ZnMeta(1)>>}

InitPipeline ==
    /\ pc = "run1"
    /\ \E b \in PipeCells, o \in PipeCells, d \in PipeCells,
          m \in PipeCells, c \in PipeCells :
           df = [columns |-> {CuCol}, rows |-> EvalBatch(b, o, d, m, c)]
    /\ metadata \in PipeMetadatas
    /\ tolerance_factor = 3 /\ bdl_rule = Sym("half")
    /\ rpd_tolerance = 30 /\ low_tol = 80 /\ high_tol = 120
    \* the arguments as passed, and nothing returned yet
    /\ call_args = [df |-> df, metadata |-> metadata]
    /\ call_ret = None
    /\ IdleFlag /\ IdleReduce /\ IdleSummary

Running == pc \in {"run1", "run2"}

PipeBlank ==
    /\ Running /\ blank_results = None
    /\ blank_results' = compute_blank_qc(df, metadata, tolerance_factor, bdl_rule)
    /\ df' = Blank_df_after(df)
    /\ UNCHANGED <<pc, flagVars, callVars, reduceVars, crm_results, dup_results,
                   summary, metadata, tolerance_factor, bdl_rule, rpd_tolerance,
                   low_tol, high_tol>>

PipeDup ==
    /\ Running /\ dup_results = None
    /\ dup_results' = compute_duplicate_rpd(df, metadata, rpd_tolerance)
    /\ df' = Dup_df_after(df)
    /\ UNCHANGED <<pc, flagVars, callVars, reduceVars, crm_results, blank_results,
                   summary, metadata, tolerance_factor, bdl_rule, rpd_tolerance,
                   low_tol, high_tol>>

PipeCrm ==
    /\ Running /\ crm_results = None
    /\ crm_results' = compute_crm_recovery(df, metadata, low_tol, high_tol)
    /\ df' = Crm_df_after(df)
    /\ UNCHANGED <<pc, flagVars, callVars, reduceVars, dup_results, blank_results,
                   summary, metadata, tolerance_factor, bdl_rule, rpd_tolerance,
                   low_tol, high_tol>>

AllEvaluated ==
    crm_results # None /\ dup_results # None /\ blank_results # None

EvaluatorRaised ==
    \E t \in {crm_results, dup_results, blank_results} : HasRaised(t)

\* an exception of an evaluator ends the run
PipeAbort ==
    /\ Running /\ AllEvaluated /\ EvaluatorRaised
    /\ summary' = CHOOSE t \in {crm_results, dup_results, blank_results} :
                      HasRaised(t)
    /\ pc' = IF pc = "run1" THEN "done1" ELSE "done2"
    /\ UNCHANGED <<flagVars, callVars, reduceVars, crm_results, dup_results,
                   blank_results, evalVars>>

PipeSummary ==
    /\ Running /\ AllEvaluated /\ ~EvaluatorRaised
    /\ summary' = build_qc_summary(crm_results, dup_results, blank_results)
    /\ crm_results' = Summary_arg_after(crm_results)
    /\ dup_results' = Summary_arg_after(dup_results)
    /\ blank_results' = Summary_arg_after(blank_results)
    /\ pc' = IF pc = "run1" THEN "done1" ELSE "done2"
    /\ UNCHANGED <<flagVars, callVars, reduceVars, evalVars>>

\* the second run: the tables of the first are kept aside, df and metadata are
\* handed over as they are now
PipeAgain ==
    /\ pc = "done1"
    /\ call_ret' = [crm |-> crm_results, dup |-> dup_results,
                    blank |-> blank_results, summary |-> summary]
    /\ crm_results' = None /\ dup_results' = None /\ blank_results' = None
    /\ summary' = None
    /\ pc' = "run2"
    /\ UNCHANGED <<call_args, flagVars, reduceVars, evalVars>>

NextPipeline ==
    \/ PipeBlank
    \/ PipeDup
    \/ PipeCrm
    \/ PipeAbort
    \/ PipeSummary
    \/ PipeAgain

SpecPipeline == InitPipeline /\ [][NextPipeline]_vars

----------------------------------------------------------------------------
(* column_namer.py: rename_analyte_columns *)

\* column labels: the position read from the sheet, or a name
Position(i) == [idx |-> i]
Named(n) == [name |-> n]

\* metadata is a mapping [kind |-> "dict", items |-> function from column
\* positions to entries] or something else; an entry is an analyte record,
\* a record without unit, or no record at all
IsDict(metadata_arg) == metadata_arg.kind = "dict"

LooksLikeAnalyte(meta) ==
    /\ meta # None
    /\ "analyte" \in DOMAIN meta /\ "unit" \in DOMAIN meta

\* lines 13-35
NewCols(items) ==
    [c \in {0} \cup {k \in DOMAIN items : LooksLikeAnalyte(items[k])} |->
        IF c \in DOMAIN items /\ LooksLikeAnalyte(items[c])
        THEN Named(ColName(items[c]))
        ELSE Named(<<"S", "a", "m", "p", "l", "e">>)]

\* line 37: df.rename(columns=new_cols)
Rename(columns, new_cols) ==
    [i \in DOMAIN columns |->
        IF "idx" \in DOMAIN columns[i] /\ columns[i].idx \in DOMAIN new_cols
        THEN new_cols[columns[i].idx]
        ELSE columns[i]]

rename_analyte_columns_lenient(df_qc, metadata_arg) ==
    IF ~IsDict(metadata_arg)
    THEN [columns |-> Rename(df_qc.columns, NewCols(<<>>))]
    ELSE [columns |-> Rename(df_qc.columns, NewCols(metadata_arg.items))]

rename_analyte_columns(df_qc, metadata_arg) ==
    IF ~IsDict(metadata_arg) THEN Raised("TypeError")
    ELSE [columns |-> Rename(df_qc.columns, NewCols(metadata_arg.items))]

MaxCols == 3

\* the table of load_qc_table: column 0 the sample name, 1..n the analytes
QcTables == {[columns |-> [i \in 1..(n + 1) |-> Position(i - 1)]] : n \in 1..MaxCols}

MetaEntries ==
    {CuMeta(1), ZnMeta(1), [analyte |-> Cu, dl |-> 1], None}

MetadataArgs ==
    {[kind |-> "dict", items |-> f] :
        f \in UNION {[K -> MetaEntries] : K \in SUBSET (1..MaxCols)}}
    \cup {[kind |-> "list"], [kind |-> "NoneType"], [kind |-> "str"]}

InitRename ==
    /\ pc = "start"
    /\ \E t \in QcTables, md \in MetadataArgs :
           call_args = [df_qc |-> t, metadata |-> md]
    /\ call_ret = None
    /\ IdleFlag /\ IdleReduce /\ IdleSummary /\ IdleEval

RenameAnalyteColumns ==
    /\ pc = "start"
    /\ call_ret' = rename_analyte_columns(call_args.df_qc, call_args.metadata)
    /\ pc' = "done"
    /\ UNCHANGED <<call_args, flagVars, reduceVars, summaryVars, evalVars>>

NextRename == RenameAnalyteColumns

SpecRename == InitRename /\ [][NextRename]_vars

\* C24: with metadata that is not a mapping rename_analyte_columns raises an
\* error and returns no table, renamed or not.
C24_MetadataMustBeMapping ==
    (pc = "done" /\ ~IsDict(call_args.metadata)) =>
        /\ HasRaised(call_ret)
        /\ call_ret = Raised("TypeError")
        /\ "columns" \notin DOMAIN call_ret

\* a list handed over as metadata
C24_Witness ==
    /\ pc = "done"
    /\ call_args.metadata.kind = "list"
    /\ HasRaised(call_ret)

----------------------------------------------------------------------------
(* build_qc_summary: from the duplicate statuses to Final_QC_Flag *)

\* the duplicate records of the analyte of a summary row
DupRecordsOf(r) ==
    IF IsEmptyFrame(dup_results) THEN {}
    ELSE {dup_results.rows[j] : j \in {k \in DOMAIN dup_results.rows :
              KeyOf(dup_results.rows[k]) = KeyOf(r)}}

ModuleStatuses(r) ==
    {r.CRM_FinalStatus, r.Duplicate_Status, r.Blank_Status}

\* C25: if a duplicate pair of an analyte has status BDL_Substitution or
\* NotEvaluated and no module status of the analyte is Fail, Final_QC_Flag is
\* Needs Investigation; Final_QC_Flag is Pass only if no module's reduced status
\* is Needs Investigation.
C25_DupNeedsInvestigationFlag ==
    (pc = "done" /\ IsFrame(summary)) =>
        \A i \in DOMAIN summary.rows :
            LET r == summary.rows[i]
            IN  /\ ((\E d \in DupRecordsOf(r) :
                        d.Status \in {"BDL_Substitution", "NotEvaluated"})
                    /\ "Fail" \notin ModuleStatuses(r)) =>
                       r.Final_QC_Flag = "Needs Investigation"
                /\ r.Final_QC_Flag = "Pass" =>
                       "Needs Investigation" \notin ModuleStatuses(r)

\* what the reducer does deliver in that case: Duplicate_Status Needs
\* Investigation
C25_DupReducedNeedsInvestigation ==
    (pc = "done" /\ IsFrame(summary)) =>
        \A i \in DOMAIN summary.rows :
            LET r == summary.rows[i]
            IN  ((\E d \in DupRecordsOf(r) :
                     d.Status \in {"BDL_Substitution", "NotEvaluated"})
                 /\ ~\E d \in DupRecordsOf(r) : d.Status = "Fail_RPD") =>
                    r.Duplicate_Status = "Needs Investigation"

----------------------------------------------------------------------------
(* compute_duplicate_rpd: how often a row is paired *)

OrigOf(b) == {i \in DOMAIN df.rows : IsOrig(i) /\ MaterialOf(i) = b}
DupOf(b) == {i \in DOMAIN df.rows : IsDup(i) /\ MaterialOf(i) = b}

\* C26: every Orig row and every Dup row is in at most one record per analyte;
\* a base key carried by m Orig rows and n Dup rows has at most min(m, n)
\* records per analyte.
C26_DupRowPairedOnce ==
    pc = "done" =>
        \A i \in Mapped :
            LET pos == RecordPositions(dup_results, metadata[i])
                rec(j) == dup_results.rows[j]
            IN  /\ \A k \in DOMAIN df.rows :
                       /\ Cardinality({j \in pos : rec(j).Orig_num = Num(k)}) <= 1
                       /\ Cardinality({j \in pos : rec(j).Dup_num = Num(k)}) <= 1
                /\ \A b \in {"A", "B"} :
                       Cardinality({j \in pos : rec(j).Sample = <<b>>})
                           <= Min(Cardinality(OrigOf(b)), Cardinality(DupOf(b)))

\* what the join on DUP_Base alone gives: m * n records
C26_DupManyToMany ==
    pc = "done" =>
        \A i \in Mapped :
            LET pos == RecordPositions(dup_results, metadata[i])
            IN  \A b \in {"A", "B"} :
                    Cardinality({j \in pos : dup_results.rows[j].Sample = <<b>>})
                        = Cardinality(OrigOf(b)) * Cardinality(DupOf(b))

----------------------------------------------------------------------------
(* the status vocabularies of the evaluators *)

BlankVocabulary == {"OK", "Needs Investigation", "Fail", "NotEvaluated"}

DupVocabulary ==
    {"NotEvaluated", "BothBDL", "BDL_Substitution", "Below10xDL", "OK", "Fail_RPD"}

CrmVocabulary ==
    {"NotApplicable", "NotEvaluated", "Below10xDL", "Needs Investigation",
     "OK", "Fail"}

\* how many of the masks hold
Holding(masks) == Cardinality({f \in DOMAIN masks : masks[f]})

\* the masks of the duplicate pair and of the CRM pair of the batch
PairDupMasks ==
    LET dl == metadata[1].dl
        o == df.rows[2].cells[CuCol]
        d == df.rows[3].cells[CuCol]
    IN  DupMasks(o, d, Above10x(Dup_to_numeric_with_bdl(o, dl),
                                Dup_to_numeric_with_bdl(d, dl), dl))

PairCrmMasks ==
    LET dl == metadata[1].dl
    IN  CrmMasks(CrmClean(df.rows[4].cells[CuCol], dl),
                 CrmClean(df.rows[5].cells[CuCol], dl), dl)

\* C28: with DL > 0 and low_tol <= high_tol every record of an evaluator has a
\* status of the evaluator's vocabulary, never the empty string, and exactly
\* one case mask of the Duplicate and of the CRM evaluator holds for a pair.
C28_ClosedVocabulary ==
    (pc = "done" /\ low_tol <= high_tol
        /\ \A i \in DOMAIN metadata : metadata[i].dl > 0) =>
        /\ blank_results # None =>
             /\ IsFrame(blank_results) /\ blank_results.rows # <<>>
             /\ \A j \in DOMAIN blank_results.rows :
                    blank_results.rows[j].Blank_Status \in BlankVocabulary
        /\ dup_results # None =>
             /\ IsFrame(dup_results) /\ dup_results.rows # <<>>
             /\ \A j \in DOMAIN dup_results.rows :
                    dup_results.rows[j].Status \in DupVocabulary
             /\ Holding(PairDupMasks) = 1
        /\ crm_results # None =>
             /\ IsFrame(crm_results) /\ crm_results.rows # <<>>
             /\ \A j \in DOMAIN crm_results.rows :
                    crm_results.rows[j].CRM_Status \in CrmVocabulary
             /\ Holding(PairCrmMasks) = 1

\* a duplicate pair of an unparseable cell and a missing cell, DL 1
C28_Witness ==
    /\ pc = "done"
    /\ metadata[1].dl = 1
    /\ df.rows[2].cells[CuCol] = Text /\ df.rows[3].cells[CuCol] = Missing
    /\ dup_results # None
    /\ \E j \in DOMAIN dup_results.rows :
           dup_results.rows[j].Status = "NotEvaluated"

\* with DL = 0 the empty status does appear: a CRM pair 0 / 0
C28_EmptyStatusAtZeroDL ==
    (pc = "done" /\ crm_results # None) =>
        \A j \in DOMAIN crm_results.rows : crm_results.rows[j].CRM_Status # ""

----------------------------------------------------------------------------
(* interpretation.py: summarize_duplicates on the table of compute_duplicate_rpd *)

\* Status.str.upper() over the statuses a duplicate table can hold
Upper(status) ==
    CASE status = "Fail_RPD" -> "FAIL_RPD"
      [] status = "Fail" -> "FAIL"
      [] status = "NotEvaluated" -> "NOTEVALUATED"
      [] status = "BothBDL" -> "BOTHBDL"
      [] status = "BDL_Substitution" -> "BDL_SUBSTITUTION"
      [] status = "Below10xDL" -> "BELOW10XDL"
      [] OTHER -> status

\* lines 396-418; "failed" holds the analyte of each failure
summarize_duplicates(t) ==
    IF IsEmptyFrame(t)
    THEN [count |-> 0, failures |-> 0, failed |-> <<>>, skipped |-> 0]
    ELSE LET dup_numeric == SelectSeq(t.rows, LAMBDA rw : RpdNotNa(rw.RPD))
             skipped == Len(t.rows) - Len(dup_numeric)
             failures == SelectSeq(dup_numeric,
                            LAMBDA rw : Upper(rw.Status) = "FAIL")
         IN  IF dup_numeric = <<>>
             THEN [count |-> 0, failures |-> 0, failed |-> <<>>,
                   skipped |-> skipped]
             ELSE [count |-> Len(dup_numeric), failures |-> Len(failures),
                   failed |-> [i \in DOMAIN failures |-> failures[i].Analyte],
                   skipped |-> skipped]

ReportCells == {Censored, Number(12), Number(20), Number(30)}

\* two duplicated materials
ReportBatch(o1, d1, o2, d2) ==
    <<OrigRow(o1), DupRow(d1),
      [Sample |-> <<"B", " ", "O", "r", "i", "g">>, QC_Type |-> "Duplicate_Orig",
       cells |-> [c \in {CuCol} |-> o2]],
      [Sample |-> <<"B", " ", "D", "u", "p">>, QC_Type |-> "Duplicate_Dup",
       cells |-> [c \in {CuCol} |-> d2]]>>

InitDupReport ==
    /\ pc = "start"
    /\ \E o1 \in ReportCells, d1 \in ReportCells,
          o2 \in ReportCells, d2 \in ReportCells :
           df = [columns |-> {CuCol}, rows |-> ReportBatch(o1, d1, o2, d2)]
    /\ metadata \in Metadatas
    /\ rpd_tolerance \in RpdTolerances
    /\ bdl_rule = Sym("half")
    /\ tolerance_factor = 0 /\ low_tol = 0 /\ high_tol = 0
    /\ IdleFlag /\ IdleCall /\ IdleReduce /\ IdleSummary

SummarizeDuplicates ==
    /\ pc = "done"
    /\ call_args = None
    /\ call_args' = [dup_results |-> dup_results]
    /\ call_ret' = summarize_duplicates(dup_results)
    /\ pc' = "summarized"
    /\ UNCHANGED <<flagVars, reduceVars, summaryVars, evalVars>>

NextDupReport == ComputeDuplicateRpd \/ SummarizeDuplicates

SpecDupReport == InitDupReport /\ [][NextDupReport]_vars

FailedPairs ==
    {j \in DOMAIN dup_results.rows : dup_results.rows[j].Status = "Fail_RPD"}

\* C29: the failures summarize_duplicates reports are the records of status
\* Fail_RPD in the table of compute_duplicate_rpd: as many, and more than zero
\* when a pair fails the tolerance.
C29_ReportedFailures ==
    pc = "summarized" =>
        /\ call_ret.failures = Cardinality(FailedPairs)
        /\ FailedPairs # {} => call_ret.failures > 0

\* what is reported: no failure, whatever the table holds
C29_NoFailureReported ==
    pc = "summarized" => call_ret.failures = 0 /\ call_ret.failed = <<>>

----------------------------------------------------------------------------
(* classifier.py: classify_qc_row, then compute_duplicate_rpd *)

LowerLetters ==
    <<"a", "b", "c", "d", "e", "f", "g", "h", "i", "j", "k", "l", "m",
      "n", "o", "p", "q", "r", "s", "t", "u", "v", "w", "x", "y", "z">>

UpperLetters ==
    <<"A", "B", "C", "D", "E", "F", "G", "H", "I", "J", "K", "L", "M",
      "N", "O", "P", "Q", "R", "S", "T", "U", "V", "W", "X", "Y", "Z">>

UpperChar(ch) ==
    IF \E i \in DOMAIN LowerLetters : LowerLetters[i] = ch
    THEN UpperLetters[CHOOSE i \in DOMAIN LowerLetters : LowerLetters[i] = ch]
    ELSE ch

\* str.upper()
UpperStr(str) == [i \in DOMAIN str |-> UpperChar(str[i])]

\* str.endswith(suffix)
EndsWith(str, suffix) ==
    /\ Len(str) >= Len(suffix)
    /\ SubSeq(str, Len(str) - Len(suffix) + 1, Len(str)) = suffix

\* lines 3-24; sample names are strings here
classify_qc_row(sample_name) ==
    IF Strip(sample_name) = <<>> THEN "Other"
    ELSE LET name == UpperStr(Strip(sample_name))
         IN  IF Contains(name, <<"B", "L", "A", "N", "K">>)
                  \/ Contains(name, <<"B", "L", "K">>)
             THEN "Blank"
             ELSE IF Contains(name, <<" ", "O", "R", "I", "G">>)
                       \/ EndsWith(name, <<"O", "R", "I", "G">>)
             THEN "Duplicate_Orig"
             ELSE IF Contains(name, <<" ", "D", "U", "P">>)
                       \/ EndsWith(name, <<"D", "U", "P">>)
             THEN "Duplicate_Dup"
             ELSE "CRM"

\* lines 27-34
classify_qc_table(d) ==
    [d EXCEPT !.rows = [i \in DOMAIN d.rows |->
                           [d.rows[i] EXCEPT !.QC_Type =
                                classify_qc_row(d.rows[i].Sample)]]]

\* the Orig and the Dup marker as they are written on sample sheets
OrigMarkers ==
    {<<" ", "O", "r", "i", "g">>, <<" ", "O", "R", "I", "G">>,
     <<" ", "o", "r", "i", "g">>, <<"O", "r", "i", "g">>, <<"O", "R", "I", "G">>}

DupMarkers ==
    {<<" ", "D", "u", "p">>, <<" ", "D", "U", "P">>,
     <<" ", "d", "u", "p">>, <<"D", "u", "p">>, <<"D", "U", "P">>}

SampleBases == {<<"A">>, <<"S", "1">>}

ClassifyCells == {Censored, Number(5), Number(20)}

\* a row as loaded, not yet classified
RawRow(sample, x) ==
    [Sample |-> sample, QC_Type |-> None, cells |-> [c \in {CuCol} |-> x]]

InitClassify ==
    /\ pc = "loaded"
    /\ \E b \in SampleBases, om \in OrigMarkers, dm \in DupMarkers,
          o \in ClassifyCells, d \in ClassifyCells :
           df = [columns |-> {CuCol},
                 rows |-> <<RawRow(b \o om, o), RawRow(b \o dm, d)>>]
    /\ metadata \in Metadatas
    /\ rpd_tolerance = 30
    /\ bdl_rule = Sym("half")
    /\ tolerance_factor = 0 /\ low_tol = 0 /\ high_tol = 0
    /\ IdleFlag /\ IdleCall /\ IdleReduce /\ IdleSummary

ClassifyQcTable ==
    /\ pc = "loaded"
    /\ df' = classify_qc_table(df)
    /\ pc' = "start"
    /\ UNCHANGED <<flagVars, callVars, reduceVars, summaryVars, metadata,
                   tolerance_factor, bdl_rule, rpd_tolerance, low_tol, high_tol>>

NextClassify == ClassifyQcTable \/ ComputeDuplicateRpd

SpecClassify == InitClassify /\ [][NextClassify]_vars

\* C30: when classify_qc_row labels one row Duplicate_Orig and the other
\* Duplicate_Dup and their names differ only in the Orig/Dup marker, whatever
\* its letter case and with or without a space before it, compute_duplicate_rpd
\* emits a record of the pair for each mapped analyte.
C30_ClassifiedPairsAreJoined ==
    (pc = "done" /\ df.rows[1].QC_Type = "Duplicate_Orig"
        /\ df.rows[2].QC_Type = "Duplicate_Dup") =>
        /\ IsFrame(dup_results)
        /\ \A i \in Mapped :
               Cardinality(RecordPositions(dup_results, metadata[i])) = 1

\* the pairs that are joined: those written " Orig" and " Dup"
C30_JoinedWhenSpelledAsBaseName ==
    pc = "done" =>
        \A i \in Mapped :
            Cardinality(RecordPositions(dup_results, metadata[i])) =
                IF /\ EndsWith(df.rows[1].Sample, <<" ", "O", "r", "i", "g">>)
                   /\ EndsWith(df.rows[2].Sample, <<" ", "D", "u", "p">>)
                THEN 1 ELSE 0

\* every row of these batches is classified as the marker says
C30_MarkersClassified ==
    pc \in {"start", "done"} =>
        /\ df.rows[1].QC_Type = "Duplicate_Orig"
        /\ df.rows[2].QC_Type = "Duplicate_Dup"

====
